---- MODULE Spec2Model ----
(***************************************************************************)
(* Model of the Keenetic SMS gateway: the router client (authentication,   *)
(* request/retry, facade operations), the support wrappers and the         *)
(* connectivity-tracking wrapper track_client_operation.                   *)
(*                                                                         *)
(* JSON values are tagged records [t, v]; a mapping is an ordered          *)
(* sequence of <<key, value>> pairs (Python dicts keep insertion order).   *)
(***************************************************************************)
EXTENDS Integers, Sequences, FiniteSets, TLC

\* ------------------------------------------------------------------ JSON
JNull == [t |-> "null", v |-> 0]
JStr(s) == [t |-> "str", v |-> s]
JInt(n) == [t |-> "int", v |-> n]
JBool(b) == [t |-> "bool", v |-> b]
JList(s) == [t |-> "list", v |-> s]
JDict(p) == [t |-> "dict", v |-> p]

IsDict(x) == x.t = "dict"
IsList(x) == x.t = "list"
IsStr(x) == x.t = "str"

\* Python truthiness of a decoded JSON value
Truthy(x) ==
  CASE x.t = "null" -> FALSE
    [] x.t = "bool" -> x.v
    [] x.t = "int" -> x.v # 0
    [] x.t = "str" -> x.v # ""
    [] OTHER -> Len(x.v) > 0

\* k in d, for a mapping d
Has(d, k) == \E i \in 1..Len(d.v) : d.v[i][1] = k

\* d.get(k, def), for a mapping d
Get(d, k, def) ==
  IF Has(d, k)
  THEN d.v[CHOOSE i \in 1..Len(d.v) : d.v[i][1] = k][2]
  ELSE def

\* d[k] = x, for a mapping d: replaces in place or appends
DictSet(d, k, x) ==
  IF Has(d, k)
  THEN JDict([i \in 1..Len(d.v) |-> IF d.v[i][1] = k THEN <<k, x>> ELSE d.v[i]])
  ELSE JDict(Append(d.v, <<k, x>>))

Keys(d) == {d.v[i][1] : i \in 1..Len(d.v)}

\* s.endswith(suf)
EndsWith(s, suf) ==
  Len(s) >= Len(suf) /\ SubSeq(s, Len(s) - Len(suf) + 1, Len(s)) = suf

\* sub in s, for strings
Contains(s, sub) ==
  \E i \in 1..(Len(s) - Len(sub) + 1) : SubSeq(s, i, i + Len(sub) - 1) = sub

\* ------------------------------------------------------- call outcomes
\* The outcome of a Python call: a returned value or a raised exception.
NoResult == [kind |-> "none", val |-> JNull]
Value(x) == [kind |-> "value", val |-> x]
Raise(e) == [kind |-> "exc", val |-> JStr(e)]

IsValue(r) == r.kind = "value"
IsExc(r) == r.kind = "exc"

\* ------------------------------------------------------ Python helpers
\* a or b
PyOr(a, b) == IF Truthy(a) THEN a ELSE b

LowerAlphabet == "abcdefghijklmnopqrstuvwxyz"
UpperAlphabet == "ABCDEFGHIJKLMNOPQRSTUVWXYZ"
Digits == "0123456789"

\* position of the one-character string c in alphabet, 0 when absent
CharIndex(c, alphabet) ==
  IF \E i \in 1..Len(alphabet) : SubSeq(alphabet, i, i) = c
  THEN CHOOSE i \in 1..Len(alphabet) : SubSeq(alphabet, i, i) = c
  ELSE 0

UpperChar(c) ==
  IF CharIndex(c, LowerAlphabet) > 0
  THEN SubSeq(UpperAlphabet, CharIndex(c, LowerAlphabet), CharIndex(c, LowerAlphabet))
  ELSE c

LowerChar(c) ==
  IF CharIndex(c, UpperAlphabet) > 0
  THEN SubSeq(LowerAlphabet, CharIndex(c, UpperAlphabet), CharIndex(c, UpperAlphabet))
  ELSE c

RECURSIVE LowerStr(_)
LowerStr(s) ==
  IF Len(s) = 0 THEN "" ELSE LowerChar(SubSeq(s, 1, 1)) \o LowerStr(SubSeq(s, 2, Len(s)))

\* s.capitalize()
Capitalize(s) ==
  IF Len(s) = 0 THEN "" ELSE UpperChar(SubSeq(s, 1, 1)) \o LowerStr(SubSeq(s, 2, Len(s)))

RECURSIVE NatStr(_)
NatStr(n) ==
  IF n < 10 THEN SubSeq(Digits, n + 1, n + 1)
  ELSE NatStr(n \div 10) \o SubSeq(Digits, (n % 10) + 1, (n % 10) + 1)

\* str(n)
IntStr(n) == IF n < 0 THEN "-" \o NatStr(0 - n) ELSE NatStr(n)

\* str(x) as an f-string formats a decoded JSON scalar
FormatValue(x) ==
  CASE x.t = "str" -> x.v
    [] x.t = "int" -> IntStr(x.v)
    [] x.t = "bool" -> IF x.v THEN "True" ELSE "False"
    [] x.t = "null" -> "None"
    [] OTHER -> "<repr>"

IsDigits(s) == Len(s) > 0 /\ \A i \in 1..Len(s) : CharIndex(SubSeq(s, i, i), Digits) > 0

RECURSIVE DigitsVal(_)
DigitsVal(s) ==
  IF Len(s) = 0 THEN 0
  ELSE 10 * DigitsVal(SubSeq(s, 1, Len(s) - 1))
       + CharIndex(SubSeq(s, Len(s), Len(s)), Digits) - 1

\* int(x): [ok, n]; ok is false where Python raises ValueError or TypeError
PyInt(x) ==
  CASE x.t = "int" -> [ok |-> TRUE, n |-> x.v]
    [] x.t = "bool" -> [ok |-> TRUE, n |-> IF x.v THEN 1 ELSE 0]
    [] x.t = "str" ->
         IF IsDigits(x.v) THEN [ok |-> TRUE, n |-> DigitsVal(x.v)]
         ELSE IF Len(x.v) > 1 /\ SubSeq(x.v, 1, 1) = "-" /\ IsDigits(SubSeq(x.v, 2, Len(x.v)))
              THEN [ok |-> TRUE, n |-> 0 - DigitsVal(SubSeq(x.v, 2, Len(x.v)))]
              ELSE [ok |-> FALSE, n |-> 0]
    [] OTHER -> [ok |-> FALSE, n |-> 0]

\* ------------------------------------------------ facade: status reads
\* Each status read takes tr, the outcome of its _rci_request call.

ModemInfoDefault ==
  JDict(<< <<"Manufacturer", JStr("Unknown")>>, <<"Model", JStr("Unknown")>>,
           <<"IMEI", JStr("Unknown")>>, <<"Firmware", JStr("Unknown")>> >>)

get_modem_info(tr) ==
  IF IsExc(tr) \/ ~IsDict(tr.val)
  THEN Value(ModemInfoDefault)
  ELSE Value(JDict(<<
         <<"Manufacturer", Get(tr.val, "manufacturer", JStr("Unknown"))>>,
         <<"Model", Get(tr.val, "model", JStr("Unknown"))>>,
         <<"IMEI", Get(tr.val, "imei", JStr("Unknown"))>>,
         <<"Firmware", Get(tr.val, "firmware", JStr("Unknown"))>> >>))

\* -113 dBm -> 0 %, -51 dBm -> 100 %, linear in between, truncated
SignalPercent(rssi) ==
  IF ~Truthy(rssi) \/ ~PyInt(rssi).ok THEN 0
  ELSE IF PyInt(rssi).n >= -51 THEN 100
  ELSE IF PyInt(rssi).n <= -113 THEN 0
  ELSE ((PyInt(rssi).n + 113) * 100) \div 62

SignalQualityDefault ==
  JDict(<< <<"SignalStrength", JInt(0)>>, <<"SignalPercent", JInt(0)>>,
           <<"BitErrorRate", JInt(0)>> >>)

SignalRssi(data) == PyOr(Get(data, "signal-strength", JNull), Get(data, "rssi", JInt(0)))

get_signal_quality(tr) ==
  IF IsExc(tr) \/ ~IsDict(tr.val)
  THEN Value(SignalQualityDefault)
  ELSE Value(JDict(<<
         <<"SignalStrength",
           IF Truthy(SignalRssi(tr.val)) THEN SignalRssi(tr.val) ELSE JInt(-1)>>,
         <<"SignalPercent", JInt(SignalPercent(SignalRssi(tr.val)))>>,
         <<"BitErrorRate", JInt(0)>> >>))

NetworkInfoDefault ==
  JDict(<< <<"NetworkName", JStr("Unknown")>>, <<"State", JStr("Unknown")>> >>)

get_network_info(tr) ==
  IF IsExc(tr) \/ ~IsDict(tr.val)
  THEN Value(NetworkInfoDefault)
  ELSE Value(JDict(<<
         <<"NetworkName", Get(tr.val, "operator", JStr("Unknown"))>>,
         <<"State", Get(tr.val, "state", JStr("Unknown"))>>,
         <<"NetworkCode", JStr(FormatValue(Get(tr.val, "mcc", JStr("")))
                               \o FormatValue(Get(tr.val, "mnc", JStr(""))))>>,
         <<"CID", Get(tr.val, "cell-id", JStr(""))>>,
         <<"LAC", Get(tr.val, "lac", JStr(""))>> >>))

\* get_sim_imsi without its except clause: the failure propagates
get_sim_imsi_unguarded(tr) ==
  IF IsExc(tr) THEN tr
  ELSE IF ~IsDict(tr.val) THEN Raise("AttributeError")
  ELSE Value(Get(tr.val, "imsi", JStr("N/A")))

get_sim_imsi(tr) ==
  IF IsExc(tr) \/ ~IsDict(tr.val)
  THEN Value(JStr("N/A"))
  ELSE Value(Get(tr.val, "imsi", JStr("N/A")))

check_connection(tr) == Value(JBool(IsValue(tr)))

\* --------------------------------------------------- facade: SMS list
\* x in c, as Python evaluates it for a decoded JSON container c;
\* ok is false where Python raises TypeError
PyIn(k, c) ==
  CASE c.t = "dict" -> [ok |-> TRUE, b |-> Has(c, k)]
    [] c.t = "list" -> [ok |-> TRUE, b |-> \E i \in 1..Len(c.v) : c.v[i] = JStr(k)]
    [] c.t = "str" -> [ok |-> TRUE, b |-> Contains(c.v, k)]
    [] OTHER -> [ok |-> FALSE, b |-> FALSE]

\* The sms_data that get_all_sms picks out of the first element of the
\* response: [exc, data]; data is JNull where the code leaves it None.
SmsData(response_data) ==
  IF ~IsDict(response_data) THEN [exc |-> FALSE, data |-> JNull]
  ELSE IF Has(response_data, "sms")
  THEN LET sms == Get(response_data, "sms", JNull) IN
       IF ~PyIn("list", sms).ok THEN [exc |-> TRUE, data |-> JNull]
       ELSE IF PyIn("list", sms).b
       THEN IF IsDict(sms)
            THEN [exc |-> FALSE, data |-> Get(sms, "list", JNull)]
            ELSE [exc |-> TRUE, data |-> JNull]
       ELSE IF Has(response_data, "messages")
            THEN [exc |-> FALSE, data |-> response_data]
            ELSE [exc |-> FALSE, data |-> JNull]
  ELSE IF Has(response_data, "messages")
  THEN [exc |-> FALSE, data |-> response_data]
  ELSE [exc |-> FALSE, data |-> JNull]

\* the entries of a slot-keyed mapping that are mappings, each with its
\* key injected as id
RECURSIVE ParsedMessages(_)
ParsedMessages(pairs) ==
  IF Len(pairs) = 0 THEN <<>>
  ELSE LET rest == ParsedMessages(SubSeq(pairs, 1, Len(pairs) - 1))
           last == pairs[Len(pairs)]
       IN IF IsDict(last[2])
          THEN Append(rest, DictSet(last[2], "id", JStr(last[1])))
          ELSE rest

\* the messages get_all_sms returns for a truthy sms_data
MessagesOf(sms_data) ==
  IF IsDict(sms_data)
  THEN LET mc == Get(sms_data, "messages", JNull) IN
       IF IsDict(mc) THEN JList(ParsedMessages(mc.v))
       ELSE IF IsList(mc) THEN mc
       ELSE JList(<<>>)
  ELSE IF IsList(sms_data) THEN sms_data
  ELSE JList(<<>>)

\* does get_all_sms reach the statement that resets last_sms_metadata
ReachesSmsData(tr) ==
  /\ IsValue(tr)
  /\ IsList(tr.val) /\ Len(tr.val.v) > 0
  /\ ~SmsData(tr.val.v[1]).exc
  /\ Truthy(SmsData(tr.val.v[1]).data)

\* get_all_sms, given tr, the outcome of its send_command call
get_all_sms(tr) ==
  IF ReachesSmsData(tr) THEN MessagesOf(SmsData(tr.val.v[1]).data) ELSE JList(<<>>)

RECURSIVE MetadataPairs(_)
MetadataPairs(pairs) ==
  IF Len(pairs) = 0 THEN <<>>
  ELSE LET rest == MetadataPairs(SubSeq(pairs, 1, Len(pairs) - 1))
           last == pairs[Len(pairs)]
       IN IF EndsWith(last[1], "-slots") \/ EndsWith(last[1], "-count")
          THEN Append(rest, last)
          ELSE rest

\* last_sms_metadata after get_all_sms
last_sms_metadata_after(tr, old) ==
  IF ~ReachesSmsData(tr) THEN old
  ELSE IF IsDict(SmsData(tr.val.v[1]).data)
       THEN JDict(MetadataPairs(SmsData(tr.val.v[1]).data.v))
       ELSE JDict(<<>>)

get_sms_capacity(tr) ==
  Value(JDict(<< <<"SIMUsed", JInt(Len(get_all_sms(tr).v))>>,
                 <<"SIMSize", JInt(0)>>, <<"PhoneUsed", JInt(0)>>,
                 <<"PhoneSize", JInt(0)>>, <<"TemplatesUsed", JInt(0)>> >>))

\* ------------------------------------------ support: retrieve_all_sms
\* the state of one message: [exc, state]; exc where state.capitalize()
\* raises AttributeError on a status that is no string
SmsState(sms) ==
  LET is_read == Get(sms, "read", JNull)
      status == Get(sms, "status", JStr("read"))
  IN IF is_read.t = "bool"
     THEN [exc |-> FALSE, state |-> JStr(IF is_read.v THEN "Read" ELSE "UnRead")]
     ELSE IF status = JStr("unread") THEN [exc |-> FALSE, state |-> JStr("UnRead")]
     ELSE IF status = JStr("read") THEN [exc |-> FALSE, state |-> JStr("Read")]
     ELSE IF IsStr(status) THEN [exc |-> FALSE, state |-> JStr(Capitalize(status.v))]
     ELSE [exc |-> TRUE, state |-> JNull]

SmsLocation(sms) == PyOr(Get(sms, "id", JNull), Get(sms, "index", JNull))

SmsRecord(sms) ==
  JDict(<< <<"Date", Get(sms, "timestamp", JStr(""))>>,
           <<"Number", PyOr(Get(sms, "from", JNull), Get(sms, "number", JStr("Unknown")))>>,
           <<"State", SmsState(sms).state>>,
           <<"Text", Get(sms, "text", JStr(""))>>,
           <<"Locations", JList(<<SmsLocation(sms)>>)>>,
           <<"original_index", SmsLocation(sms)>> >>)

RECURSIVE SmsRecords(_)
SmsRecords(raw) ==
  IF Len(raw) = 0 THEN <<>>
  ELSE LET rest == SmsRecords(SubSeq(raw, 1, Len(raw) - 1))
           last == raw[Len(raw)]
       IN IF IsDict(last) THEN Append(rest, SmsRecord(last)) ELSE rest

\* retrieve_all_sms(client), given tr, the outcome of the send_command
\* call made by client.get_all_sms()
retrieve_all_sms(tr) ==
  LET raw == get_all_sms(tr).v IN
  IF \E i \in 1..Len(raw) : IsDict(raw[i]) /\ SmsState(raw[i]).exc
  THEN Raise("AttributeError")
  ELSE Value(JList(SmsRecords(raw)))

\* ---------------------------------------------- facade: SMS commands
\* a send_sms that reports success whatever send_command did
send_sms_always_true(tr) == Value(JBool(TRUE))

\* send_sms, given tr, the outcome of its send_command call
send_sms(tr) ==
  IF IsValue(tr) THEN Value(JBool(TRUE))
  ELSE IF tr.val = JStr("KeeneticConnectionError") THEN Raise("KeeneticSMSError")
  ELSE tr

\* KeeneticClient.delete_sms, given tr, the outcome of its send_command call
client_delete_sms(tr) ==
  IF IsValue(tr) THEN Value(JBool(TRUE)) ELSE Raise("KeeneticSMSError")

\* support.delete_sms(client, sms) for an sms with one location: the
\* exception of client.delete_sms is logged and dropped
delete_sms(tr) ==
  IF IsExc(client_delete_sms(tr)) THEN Value(JNull) ELSE Value(JNull)

\* the delete_list that delete_all_sms builds from the listed messages:
\* [exc, list]; exc where sms.get raises AttributeError on a non-mapping
RECURSIVE DeleteEntries(_)
DeleteEntries(all_sms) ==
  IF Len(all_sms) = 0 THEN <<>>
  ELSE LET rest == DeleteEntries(SubSeq(all_sms, 1, Len(all_sms) - 1))
           idx == SmsLocation(all_sms[Len(all_sms)])
       IN IF idx # JNull THEN Append(rest, JStr(FormatValue(idx))) ELSE rest

DeleteList(all_sms) ==
  IF \E i \in 1..Len(all_sms) : ~IsDict(all_sms[i])
  THEN [exc |-> TRUE, list |-> <<>>]
  ELSE [exc |-> FALSE, list |-> DeleteEntries(all_sms)]

\* delete_all_sms without the "if not delete_list" test
delete_all_sms_listed_unchecked(tr) ==
  LET all_sms == get_all_sms(tr).v IN
  IF Len(all_sms) = 0 THEN Value(JInt(0))
  ELSE IF DeleteList(all_sms).exc THEN Raise("AttributeError")
  ELSE NoResult

\* delete_all_sms after its get_all_sms call: the value it returns at
\* once, the exception it raises, or NoResult when it goes on to send the
\* batched delete command
delete_all_sms_listed(tr) ==
  LET all_sms == get_all_sms(tr).v IN
  IF Len(all_sms) = 0 THEN Value(JInt(0))
  ELSE IF DeleteList(all_sms).exc THEN Raise("AttributeError")
  ELSE IF Len(DeleteList(all_sms).list) = 0 THEN Value(JInt(0))
  ELSE NoResult

\* a delete_all_sms that returns the count whatever send_command did
delete_all_sms_sent_unguarded(delete_list, tr) == Value(JInt(Len(delete_list)))

\* delete_all_sms after its delete command, given that call's outcome
delete_all_sms_sent(delete_list, tr) ==
  IF IsValue(tr) THEN Value(JInt(Len(delete_list))) ELSE Raise("KeeneticSMSError")

\* ------------------------------------------------- command payloads
\* self.modem_interface
ModemInterface == "UsbLte0"

\* the command of send_sms(number, message), as passed to send_command
SendCommand(number, message) ==
  JList(<<JDict(<< <<"sms", JDict(<< <<"send", JDict(<<
    <<"interface", JStr(ModemInterface)>>,
    <<"to", JStr(number)>>,
    <<"message", JStr(message)>> >>)>> >>)>> >>)>>)

\* the command of get_all_sms
ListCommand ==
  JList(<<JDict(<< <<"sms", JDict(<< <<"list", JDict(<<
    <<"interface", JStr(ModemInterface)>> >>)>> >>)>> >>)>>)

\* the command of delete_sms(sms_id) (one id) and of delete_all_sms (the
\* delete_list): ids is the sequence of id strings
DeleteCommand(ids) ==
  JList(<<JDict(<< <<"sms", JDict(<< <<"delete",
    JList([i \in 1..Len(ids) |->
             JDict(<< <<"interface", JStr(ModemInterface)>>, <<"id", ids[i]>> >>)])>> >>)>> >>)>>)

\* ================================================================ state
\* bound on the number of tracked calls in one behaviour
MaxCalls == 2

\* "main" runs init_keenetic_client and then issues tracked operations
\* like the REST handler threads and the MQTT callback thread
Threads == {"main", "rest", "mqtt"}

\* the threads that call: a REST handler and the MQTT callback
Callers == {"rest", "mqtt"}

SmsOps == {"send_sms", "retrieve_all_sms", "delete_sms", "delete_all_sms"}
ReadOps == {"get_signal_quality", "get_network_info", "get_modem_info",
            "get_sim_imsi", "get_sms_capacity", "check_connection"}
Ops == SmsOps \cup ReadOps

\* operations whose transport call is _rci_request (GET); the others use
\* send_command (POST)
RciOps == {"init", "get_signal_quality", "get_network_info", "get_modem_info",
           "get_sim_imsi", "check_connection"}

\* operations that call get_all_sms in their first transport call
ListOps == {"retrieve_all_sms", "delete_all_sms", "get_sms_capacity"}

NoSession == 0

VARIABLES
  authenticated,      \* KeeneticClient.authenticated
  session,            \* KeeneticClient.session (identity of the Session object)
  auth_cookies,       \* KeeneticClient.auth_cookies (session whose jar it is)
  last_sms_metadata,  \* KeeneticClient.last_sms_metadata
  sessionRejected,    \* history: a request on the current session got 401
  started,            \* "init", "running", or "failed" (keenetic_client is None)
  client_lock,        \* MQTTPublisher.client_lock: "free" or the holder
  device_tracker,     \* DeviceConnectivityTracker fields
  pc,                 \* each thread's place in track_client_operation
  w,                  \* each thread's executor worker: the client call
  ret,                \* what track_client_operation gave its caller
  calls,              \* tracked calls begun
  username,           \* KeeneticClient.username
  password,           \* KeeneticClient.password
  variant,            \* the deployed client: "A" (src/keenetic_client.py) or "B"
  handshake,          \* history of the current or last authenticate() call
  connected,          \* MQTTPublisher.connected
  disconnecting,      \* MQTTPublisher.disconnecting
  config,             \* the configuration options the monitor reads
  main_pc,            \* the main program: "startup", "status_started",
                      \* "serving", "finally", "atexit", "stopped"
  monitors,           \* the _publish_loop and _sms_monitor_loop threads, in
                      \* order of creation
  cycles,             \* poll cycles begun
  sms_counter,        \* MQTTPublisher.sms_counter: SMSCounter and its file
  senders,            \* each caller's place in a send request or a reset
  now,                \* time.time(), as a counter
  tracker_log,        \* history of the outcomes given to the tracker
  broker              \* history of disconnect(): calls, offline messages
                      \* published, closings of the broker connection

vars == <<authenticated, session, auth_cookies, last_sms_metadata,
          sessionRejected, started, client_lock, device_tracker, pc, w, ret,
          calls, username, password, variant, handshake, connected,
          disconnecting, config, main_pc, monitors, cycles, sms_counter, senders,
          now, tracker_log, broker>>

\* the client's configuration, fixed at construction
configVars == <<username, password, variant>>
\* what the steps of the client and of the facade leave alone
monitorVars == <<connected, disconnecting, config, main_pc, monitors, cycles, broker>>
counterVars == <<sms_counter, senders>>
trackerVars == <<now, tracker_log>>
extVars == <<configVars, handshake, monitorVars, counterVars, trackerVars>>

clientVars == <<authenticated, session, auth_cookies, sessionRejected>>
trackVars == <<client_lock, device_tracker, pc, ret, calls>>

\* the text of the message to send
MessageText == "hello"

\* the numbers handed to send_sms, one per call
Numbers == {"+1000", "+2000"}

\* the argument of a tracked call: the number of send_sms, the location
\* of the record given to delete_sms
Args(op) ==
  IF op = "send_sms" THEN Numbers
  ELSE IF op = "delete_sms" THEN {"nv-1"}
  ELSE {""}

\* a worker with no call. top says that the next entry of send_command or
\* _rci_request is a call from the operation, not the retry's recursion;
\* req .. tr are the history of the current or last such call: requests
\* sent, 401 answers, authenticate() calls made on a 401, whether that one
\* returned True, whether _ensure_authenticated failed, whether a request
\* went out with the flag false, and the call's outcome. arg is the
\* operation's argument; cmds, accepted and sent are the history of the
\* operation: entries of send_command / _rci_request from the operation,
\* requests answered 200, and the payload of the last POST /rci/;
\* authAtEntry is the authenticated flag when authenticate() was called;
\* challenge and realm are authenticate()'s locals between GET and POST
W0 ==
  [pc |-> "none", op |-> "none", phase |-> "first", retry_auth |-> TRUE,
   ctx |-> "none", temp |-> NoSession, carry |-> <<>>, res |-> NoResult,
   top |-> TRUE, req |-> 0, n401 |-> 0, reauth |-> 0, reauthOk |-> FALSE,
   ensureFailed |-> FALSE, sentUnauth |-> FALSE, tr |-> NoResult,
   recorded |-> 0, timedOut |-> FALSE,
   arg |-> "", cmds |-> 0, accepted |-> 0, sent |-> JNull, authAtEntry |-> FALSE,
   challenge |-> "", realm |-> ""]

Active(t) == w[t].pc \in {"ensure", "probe", "login", "request"}

\* requests.Session(): an object distinct from every session in use
FreshSession ==
  CHOOSE n \in 1..(Cardinality(Threads) + 3) :
    /\ n # session /\ n # auth_cookies
    /\ \A u \in Threads : w[u].temp # n

\* the usernames, passwords and header values of the handshakes checked
Usernames == {"admin"}
Passwords == {"pw1", "pw2"}
Challenges == {"c1", "c2"}
Realms == {"r1"}

\* the session a handshake starts from, and its temporary session
NewHandshake(temp) ==
  [before |-> session, cookies |-> auth_cookies, temp |-> temp,
   gets |-> 0, posts |-> 0, open |-> TRUE,
   probe |-> [err |-> FALSE, status |-> 0, challenge |-> "", realm |-> ""],
   login_data |-> <<>>, post_session |-> NoSession]

\* DeviceConnectivityTracker(): last_success_set FALSE is last_success_time
\* None, last_error "" is last_error None
DeviceConnectivityTracker0 ==
  [last_success_set |-> FALSE, last_success_time |-> 0, consecutive_failures |-> 0,
   last_error |-> "", total_operations |-> 0, successful_operations |-> 0,
   initial_check_done |-> FALSE]

\* no outcome recorded yet. outcomes, successes: calls of record_success
\* and record_failure, and of record_success; failures_since: calls of
\* record_failure since the last record_success; success_at: the time of
\* the last record_success
TrackerLog0 == [outcomes |-> 0, successes |-> 0, failures_since |-> 0, success_at |-> 0]

\* the state after construction, init_keenetic_client about to call
\* authenticate()
InitClient ==
  /\ authenticated = FALSE
  /\ session = 1
  /\ auth_cookies = NoSession
  /\ last_sms_metadata = JDict(<<>>)
  /\ sessionRejected = FALSE
  /\ started = "init"
  /\ client_lock = "free"
  /\ device_tracker = DeviceConnectivityTracker0
  /\ pc = [t \in Threads |-> "idle"]
  /\ w = [t \in Threads |->
            IF t = "main"
            THEN [W0 EXCEPT !.pc = "probe", !.op = "init", !.ctx = "init", !.temp = 2]
            ELSE W0]
  /\ ret = [t \in Threads |-> NoResult]
  /\ calls = 0
  /\ handshake = NewHandshake(2)

\* SMSCounter(): no counter file yet, the count starts from 0. file is
\* the sent_count in the counter file; increments, requests and succeeded
\* are history: sent_count += 1 statements done since the last
\* sent_count = 0, send requests begun, and sends that returned
SMSCounter0 == [sent_count |-> 0, file |-> 0, increments |-> 0, requests |-> 0,
                succeeded |-> 0]

\* a caller with no request. todo: recipients left; local: the value
\* read by sent_count += 1
Sender0 == [pc |-> "idle", todo |-> 0, local |-> 0]

\* MQTTPublisher.__init__, and the main program before its startup steps
InitPublisher ==
  /\ connected = FALSE
  /\ disconnecting = FALSE
  /\ main_pc = "startup"
  /\ monitors = <<>>
  /\ cycles = 0
  /\ sms_counter = SMSCounter0
  /\ senders = [t \in Callers |-> Sender0]
  /\ now = 0
  /\ tracker_log = TrackerLog0
  /\ broker = [disconnect_calls |-> 0, offline_published |-> 0, closed |-> 0]

\* the defaults of the options
ConfigDefault == [sms_monitoring_enabled |-> TRUE, auto_delete_read_sms |-> FALSE]

Init ==
  /\ InitClient
  /\ InitPublisher
  /\ config = ConfigDefault
  /\ username = "admin"
  /\ password = "pw1"
  /\ variant = "B"

\* ------------------------------------------------- router responses
\* A response is [err, status, challenge, realm, body]: err is a requests
\* RequestException (refused, DNS, timeout); challenge and realm are the
\* values of the challenge header and of the realm header the client
\* reads, "" for a header that is absent; body is the decoded JSON, or
\* NotJson when response.json() raises JSONDecodeError.
NotJson == [t |-> "notjson", v |-> 0]

Response(status, challenge, realm, body) ==
  [err |-> FALSE, status |-> status, challenge |-> challenge, realm |-> realm,
   body |-> body]

\* a response with both headers (hdr) or with neither
Resp(status, hdr, body) ==
  Response(status, IF hdr THEN "c1" ELSE "", IF hdr THEN "r1" ELSE "", body)
NetErr == [err |-> TRUE, status |-> 0, challenge |-> "", realm |-> "", body |-> NotJson]

\* hashlib digests in hexadecimal: fixed functions of their input
Sha256(text) == "sha256(" \o text \o ")"
Md5(text) == "md5(" \o text \o ")"

\* a digest that leaves out the challenge
DigestUnsalted(v, user, pass, challenge, realm) ==
  IF v = "A" THEN Sha256(Sha256(pass))
  ELSE Sha256(Md5(user \o ":" \o realm \o ":" \o pass))

\* response_hash: SHA256(challenge + SHA256(password)) in the older
\* client, SHA256(challenge + MD5(login:realm:pass)) in the current one
Digest(v, user, pass, challenge, realm) ==
  IF v = "A" THEN Sha256(challenge \o Sha256(pass))
  ELSE Sha256(challenge \o Md5(user \o ":" \o realm \o ":" \o pass))

\* login_data, the JSON body of POST /auth
LoginData(challenge, realm) ==
  << <<"login", username>>,
     <<"password", Digest(variant, username, password, challenge, realm)>> >>

\* a check that finds the headers whatever the response holds
ChallengeNeverMissing(r) == FALSE

\* "if not challenge or not realm" (the older client: "if not challenge")
MissingChallenge(r) ==
  IF variant = "A" THEN r.challenge = ""
  ELSE r.challenge = "" \/ r.realm = ""

ProbeResponses ==
  {NetErr, Resp(200, FALSE, NotJson), Resp(401, TRUE, NotJson),
   Resp(401, FALSE, NotJson), Resp(500, FALSE, NotJson)}

LoginResponses == {NetErr, Resp(200, FALSE, NotJson), Resp(401, FALSE, NotJson)}

\* bodies of GET /rci/show/interface/<modem>
ShowFull ==
  JDict(<< <<"manufacturer", JStr("Huawei")>>, <<"model", JStr("E3372")>>,
           <<"imei", JStr("86")>>, <<"firmware", JStr("22.1")>>,
           <<"signal-strength", JInt(-82)>>, <<"operator", JStr("MTS")>>,
           <<"state", JStr("up")>>, <<"mcc", JStr("250")>>, <<"mnc", JInt(1)>>,
           <<"cell-id", JInt(77)>>, <<"lac", JStr("1a")>>, <<"imsi", JStr("2500")>> >>)
ShowPartial == JDict(<< <<"rssi", JStr("-60")>>, <<"operator", JStr("MTS")>> >>)
ShowBodies == {ShowFull, ShowPartial, JList(<<JInt(1)>>), NotJson}

\* bodies answering the sms list command
Msg1 == JDict(<< <<"from", JStr("+1000")>>, <<"text", JStr("hi")>>, <<"status", JStr("unread")>> >>)
Msg2 == JDict(<< <<"number", JStr("+2000")>>, <<"text", JStr("yo")>>, <<"read", JBool(TRUE)>>,
                 <<"timestamp", JStr("2024-01-02")>> >>)
ListSlots ==
  JList(<<JDict(<< <<"sms", JDict(<< <<"list", JDict(<<
     <<"messages", JDict(<< <<"nv-1", Msg1>>, <<"nv-2", Msg2>> >>)>>,
     <<"nv-slots", JInt(50)>> >>)>> >>)>> >>)>>)
ListNoIds == JList(<<JDict(<< <<"messages", JList(<<Msg1>>)>> >>)>>)
ListEmpty == JList(<<JDict(<< <<"sms", JDict(<< <<"list", JDict(<<>>)>> >>)>> >>)>>)

\* the two messages as the router lists them in a sequence: each carries
\* its slot identifier in its id field
Msg1Id == DictSet(Msg1, "id", JStr("nv-1"))
Msg2Id == DictSet(Msg2, "id", JStr("nv-2"))

\* the first element of the response is the sequence of messages
ListFlat == JList(<<JList(<<Msg1Id, Msg2Id>>)>>)
\* {"sms": {"list": [...]}}
ListSeq == JList(<<JDict(<< <<"sms", JDict(<< <<"list", JList(<<Msg1Id, Msg2Id>>)>> >>)>> >>)>>)
\* {"sms": {"list": {"nv-1": {...}, "nv-2": {...}}}}
ListSlotMap ==
  JList(<<JDict(<< <<"sms", JDict(<< <<"list",
     JDict(<< <<"nv-1", Msg1>>, <<"nv-2", Msg2>> >>)>> >>)>> >>)>>)
\* {"sms": {"list": {"messages": [...]}}}
ListMessagesSeq ==
  JList(<<JDict(<< <<"sms", JDict(<< <<"list", JDict(<<
     <<"messages", JList(<<Msg1Id, Msg2Id>>)>> >>)>> >>)>> >>)>>)
\* {"messages": [...]}
ListBare == JList(<<JDict(<< <<"messages", JList(<<Msg1Id, Msg2Id>>)>> >>)>>)
\* messages of an index-numbered store: index 0, no identifier at all,
\* and both an id and an index
ListIndexed ==
  JList(<<JDict(<< <<"messages", JList(<<
     JDict(<< <<"index", JInt(0)>>, <<"text", JStr("a")>> >>),
     Msg1,
     JDict(<< <<"id", JStr("nv-7")>>, <<"index", JInt(3)>>, <<"text", JStr("c")>> >>) >>)>> >>)>>)

\* an entry that is no mapping and a message whose status is a number
ListMalformed ==
  JList(<<JDict(<< <<"messages", JList(<<
     JInt(5),
     JDict(<< <<"id", JStr("nv-3")>>, <<"text", JStr("x")>>, <<"status", JInt(1)>> >>) >>)>> >>)>>)
\* messages in the states a router may report
ListStates ==
  JList(<<JDict(<< <<"messages", JList(<<
     JDict(<< <<"id", JStr("nv-4")>>, <<"text", JStr("a")>>, <<"status", JStr("UNREAD")>> >>),
     JDict(<< <<"id", JStr("nv-5")>>, <<"text", JStr("b")>>, <<"status", JStr("sent")>> >>),
     JDict(<< <<"id", JStr("nv-6")>>, <<"text", JStr("c")>>, <<"read", JBool(FALSE)>>,
              <<"status", JStr("read")>> >>),
     JDict(<< <<"id", JStr("nv-7")>>, <<"text", JStr("d")>>, <<"status", JStr("READ")>> >>) >>)>> >>)>>)

ListBodies ==
  {ListSlots, ListNoIds, ListEmpty, NotJson, ListFlat, ListSeq, ListSlotMap,
   ListMessagesSeq, ListBare, ListIndexed, ListMalformed, ListStates}

\* bodies answering a send or delete command
CommandBodies == {JList(<<JDict(<<>>)>>), NotJson}

\* what the router may answer to the request the worker is about to make
RciResponses(wr) ==
  {NetErr, Resp(401, FALSE, NotJson), Resp(500, FALSE, NotJson)}
  \cup {Resp(200, FALSE, b) :
          b \in IF wr.op \in RciOps THEN ShowBodies
                ELSE IF wr.op \in ListOps /\ wr.phase = "first" THEN ListBodies
                ELSE CommandBodies}

\* the payload that the operation of worker record wr passes to
\* send_command; JNull for the GET of _rci_request
Payload(wr) ==
  CASE wr.op = "send_sms" -> SendCommand(wr.arg, MessageText)
    [] wr.op = "delete_sms" -> DeleteCommand(<<JStr(wr.arg)>>)
    [] wr.op \in ListOps /\ wr.phase = "first" -> ListCommand
    [] wr.op = "delete_all_sms" -> DeleteCommand(wr.carry)
    [] OTHER -> JNull

\* a decoding that hands on the body it could not decode
JsonUndecoded(body) == body

\* response.json(), with the JSONDecodeError fallback to {}
JsonOrEmpty(body) == IF body = NotJson THEN JDict(<<>>) ELSE body

\* ------------------------------------------------- the client's calls
\* what the operation of worker record wr makes of the outcome tr of its
\* transport call; NoResult when another transport call follows
OpOutcome(wr, tr) ==
  CASE wr.op = "init" -> get_modem_info(tr)
    [] wr.op = "send_sms" -> send_sms(tr)
    [] wr.op = "retrieve_all_sms" -> retrieve_all_sms(tr)
    [] wr.op = "delete_sms" -> delete_sms(tr)
    [] wr.op = "delete_all_sms" ->
         IF wr.phase = "first" THEN delete_all_sms_listed(tr)
         ELSE delete_all_sms_sent(wr.carry, tr)
    [] wr.op = "get_signal_quality" -> get_signal_quality(tr)
    [] wr.op = "get_network_info" -> get_network_info(tr)
    [] wr.op = "get_modem_info" -> get_modem_info(tr)
    [] wr.op = "get_sim_imsi" -> get_sim_imsi(tr)
    [] wr.op = "get_sms_capacity" -> get_sms_capacity(tr)
    [] OTHER -> check_connection(tr)

\* send_command or _rci_request of worker t ends with outcome tr (wr is
\* the worker with the step's history applied): the operation goes on
Finish(t, wr, tr) ==
  LET ended == [wr EXCEPT !.tr = tr, !.temp = NoSession, !.ctx = "none"]
      out == OpOutcome(wr, tr)
  IN /\ w' = [w EXCEPT ![t] =
                IF out = NoResult
                THEN [ended EXCEPT !.pc = "ensure", !.phase = "delete",
                                   !.retry_auth = TRUE, !.top = TRUE,
                                   !.carry = DeleteList(get_all_sms(tr).v).list]
                ELSE [ended EXCEPT !.pc = "done", !.res = out]]
     /\ last_sms_metadata' =
          IF wr.op \in ListOps /\ wr.phase = "first"
          THEN last_sms_metadata_after(tr, last_sms_metadata)
          ELSE last_sms_metadata
     /\ started' = IF wr.op = "init" THEN "running" ELSE started

\* authenticate() begins: temp_session = requests.Session()
StartAuthenticate(wr, ctx) ==
  [wr EXCEPT !.pc = "probe", !.ctx = ctx, !.temp = FreshSession]

\* an entry that does not look at the authenticated flag
ensure_skipped(t) ==
  /\ w[t].pc = "ensure"
  /\ w' = [w EXCEPT ![t] = [w[t] EXCEPT !.pc = "request", !.top = FALSE]]
  /\ UNCHANGED <<clientVars, last_sms_metadata, started, trackVars>>

\* _ensure_authenticated at the entry of send_command / _rci_request
ensure_authenticated(t) ==
  /\ w[t].pc = "ensure"
  /\ LET wr == IF w[t].top
               THEN [w[t] EXCEPT !.top = FALSE, !.cmds = @ + 1, !.req = 0, !.n401 = 0,
                                 !.reauth = 0, !.reauthOk = FALSE,
                                 !.ensureFailed = FALSE, !.sentUnauth = FALSE,
                                 !.tr = NoResult]
               ELSE w[t]
     IN w' = [w EXCEPT ![t] = IF authenticated
                               THEN [wr EXCEPT !.pc = "request"]
                               ELSE StartAuthenticate(wr, "ensure")]
  /\ UNCHANGED <<clientVars, last_sms_metadata, started, trackVars>>

\* the retry made with retry_auth left at its default
RetryCallRetrying(wr) == [wr EXCEPT !.pc = "ensure", !.ctx = "none", !.retry_auth = TRUE]

\* the 401 branch after authenticate() returned True:
\* return self.send_command(payload, retry_auth=False), and likewise
\* self._rci_request(path, method, data, retry_auth=False)
RetryCall(wr) == [wr EXCEPT !.pc = "ensure", !.ctx = "none", !.retry_auth = FALSE]

\* authenticate() returns to its caller: "true", "false" or "raise"
AfterAuth(t, result) ==
  LET wr == [w[t] EXCEPT !.temp = NoSession, !.challenge = "", !.realm = ""] IN
  CASE wr.ctx = "init" ->
         /\ w' = [w EXCEPT ![t] =
                    IF result = "true"
                    THEN [wr EXCEPT !.pc = "ensure", !.retry_auth = TRUE,
                                    !.top = TRUE, !.ctx = "none"]
                    ELSE [wr EXCEPT !.pc = "done", !.ctx = "none",
                                    !.res = IF result = "false" THEN Raise("Exception")
                                            ELSE Raise("KeeneticConnectionError")]]
         /\ started' = IF result = "true" THEN started ELSE "failed"
         /\ UNCHANGED last_sms_metadata
    [] wr.ctx = "explicit" ->
         /\ w' = [w EXCEPT ![t] =
                    [wr EXCEPT !.pc = "done", !.ctx = "none",
                               !.res = IF result = "raise"
                                       THEN Raise("KeeneticConnectionError")
                                       ELSE Value(JBool(result = "true"))]]
         /\ UNCHANGED <<last_sms_metadata, started>>
    [] wr.ctx = "ensure" ->
         IF result = "true"
         THEN /\ w' = [w EXCEPT ![t] = [wr EXCEPT !.pc = "request", !.ctx = "none"]]
              /\ UNCHANGED <<last_sms_metadata, started>>
         ELSE Finish(t, [wr EXCEPT !.ensureFailed = TRUE],
                     IF result = "false" THEN Raise("KeeneticAuthError")
                     ELSE Raise("KeeneticConnectionError"))
    [] OTHER ->
         IF result = "true"
         THEN /\ w' = [w EXCEPT ![t] = RetryCall([wr EXCEPT !.reauthOk = TRUE])]
              /\ UNCHANGED <<last_sms_metadata, started>>
         ELSE Finish(t, wr, IF result = "false" THEN Raise("KeeneticAuthError")
                            ELSE Raise("KeeneticConnectionError"))

\* authenticate(), step 1: GET /auth on the temporary session
authenticate_probe(t, r) ==
  /\ w[t].pc = "probe"
  /\ IF r.err
     THEN /\ authenticated' = FALSE
          /\ UNCHANGED <<session, auth_cookies, sessionRejected>>
          /\ AfterAuth(t, "raise")
     ELSE IF r.status = 200
     THEN /\ authenticated' = TRUE
          /\ session' = w[t].temp
          /\ sessionRejected' = FALSE
          /\ UNCHANGED auth_cookies
          /\ AfterAuth(t, "true")
     ELSE IF r.status # 401 \/ MissingChallenge(r)
     THEN /\ UNCHANGED clientVars
          /\ AfterAuth(t, "false")
     ELSE /\ w' = [w EXCEPT ![t].pc = "login", ![t].challenge = r.challenge,
                             ![t].realm = r.realm]
          /\ UNCHANGED <<clientVars, last_sms_metadata, started>>
  /\ UNCHANGED trackVars

\* a login that installs the session and leaves the flag as it was
authenticate_login_keeps_flag(t, r) ==
  /\ w[t].pc = "login"
  /\ IF r.err
     THEN /\ authenticated' = FALSE
          /\ UNCHANGED <<session, auth_cookies, sessionRejected>>
          /\ AfterAuth(t, "raise")
     ELSE IF r.status = 200
     THEN /\ UNCHANGED authenticated
          /\ session' = w[t].temp
          /\ auth_cookies' = w[t].temp
          /\ sessionRejected' = FALSE
          /\ AfterAuth(t, "true")
     ELSE /\ UNCHANGED clientVars
          /\ AfterAuth(t, "false")
  /\ UNCHANGED trackVars

\* a login that installs its session before it looks at the answer
authenticate_login_installs_first(t, r) ==
  /\ w[t].pc = "login"
  /\ IF r.err
     THEN /\ authenticated' = FALSE
          /\ UNCHANGED <<session, auth_cookies, sessionRejected>>
          /\ AfterAuth(t, "raise")
     ELSE /\ authenticated' = (r.status = 200)
          /\ session' = w[t].temp
          /\ auth_cookies' = w[t].temp
          /\ sessionRejected' = FALSE
          /\ AfterAuth(t, IF r.status = 200 THEN "true" ELSE "false")
  /\ UNCHANGED trackVars

\* authenticate(), step 3: POST /auth with the digest, same session
authenticate_login(t, r) ==
  /\ w[t].pc = "login"
  /\ IF r.err
     THEN /\ authenticated' = FALSE
          /\ UNCHANGED <<session, auth_cookies, sessionRejected>>
          /\ AfterAuth(t, "raise")
     ELSE IF r.status = 200
     THEN /\ authenticated' = TRUE
          /\ session' = w[t].temp
          /\ auth_cookies' = w[t].temp
          /\ sessionRejected' = FALSE
          /\ AfterAuth(t, "true")
     ELSE /\ UNCHANGED clientVars
          /\ AfterAuth(t, "false")
  /\ UNCHANGED trackVars

\* a transport failure of any status taken for an expired session
SessionExpiredOrFailed(r, retry_auth) == r.status # 200 /\ retry_auth

\* response.status_code == 401 and retry_auth
SessionExpired(r, retry_auth) == r.status = 401 /\ retry_auth

\* the HTTP exchange of send_command (POST /rci/) or _rci_request (GET)
\* on self.session, and the handling of its response
rci_request(t, r) ==
  /\ w[t].pc = "request"
  /\ LET wr == [w[t] EXCEPT !.req = @ + 1,
                            !.n401 = IF ~r.err /\ r.status = 401 THEN @ + 1 ELSE @,
                            !.sentUnauth = @ \/ ~authenticated,
                            !.accepted = IF ~r.err /\ r.status = 200 THEN @ + 1 ELSE @,
                            !.sent = Payload(w[t])]
     IN IF r.err
        THEN /\ UNCHANGED clientVars
             /\ Finish(t, wr, Raise("KeeneticConnectionError"))
        ELSE IF SessionExpired(r, wr.retry_auth)
        THEN /\ authenticated' = FALSE
             /\ sessionRejected' = TRUE
             /\ UNCHANGED <<session, auth_cookies>>
             /\ w' = [w EXCEPT ![t] =
                        StartAuthenticate([wr EXCEPT !.reauth = @ + 1], "reauth")]
             /\ UNCHANGED <<last_sms_metadata, started>>
        ELSE IF r.status # 200
        THEN /\ sessionRejected' = (sessionRejected \/ r.status = 401)
             /\ UNCHANGED <<authenticated, session, auth_cookies>>
             /\ Finish(t, wr, Raise("KeeneticConnectionError"))
        ELSE /\ UNCHANGED clientVars
             /\ Finish(t, wr, Value(JsonOrEmpty(r.body)))
  /\ UNCHANGED trackVars

\* --------------------------------------------- connectivity tracking
\* a success that leaves the failure count and the error as they were
record_success_keeps_failures(trk) ==
  [trk EXCEPT !.last_success_set = TRUE,
              !.last_success_time = now,
              !.total_operations = @ + 1,
              !.successful_operations = @ + 1,
              !.initial_check_done = TRUE]

record_success(trk) ==
  [trk EXCEPT !.last_success_set = TRUE,
              !.last_success_time = now,
              !.consecutive_failures = 0,
              !.last_error = "",
              !.total_operations = @ + 1,
              !.successful_operations = @ + 1,
              !.initial_check_done = TRUE]

\* a failure booked as a success
record_failure_as_success(trk, error_message) == record_success(trk)

record_failure(trk, error_message) ==
  [trk EXCEPT !.consecutive_failures = @ + 1,
              !.last_error = IF error_message # "" THEN error_message
                             ELSE "Communication failed",
              !.total_operations = @ + 1]

\* a handler or poller thread calls track_client_operation(op) and
\* reaches "with self.client_lock"
track_client_operation(t, op) ==
  /\ started = "running"
  /\ pc[t] = "idle"
  /\ ~Active(t)
  /\ calls < MaxCalls
  /\ calls' = calls + 1
  /\ pc' = [pc EXCEPT ![t] = "lock"]
  /\ \E a \in Args(op) : w' = [w EXCEPT ![t] = [W0 EXCEPT !.op = op, !.arg = a]]
  /\ ret' = [ret EXCEPT ![t] = NoResult]
  /\ UNCHANGED <<clientVars, last_sms_metadata, started, client_lock, device_tracker>>

\* a submit that does not wait for the lock
lock_acquire_unguarded(t) ==
  /\ pc[t] = "lock"
  /\ client_lock' = t
  /\ pc' = [pc EXCEPT ![t] = "result"]
  /\ w' = [w EXCEPT ![t].pc = "ensure"]
  /\ UNCHANGED <<clientVars, last_sms_metadata, started, device_tracker, ret, calls>>

\* the lock is acquired and the call is submitted to a one-worker executor
lock_acquire(t) ==
  /\ pc[t] = "lock"
  /\ client_lock = "free"
  /\ client_lock' = t
  /\ pc' = [pc EXCEPT ![t] = "result"]
  /\ w' = [w EXCEPT ![t].pc = "ensure"]
  /\ UNCHANGED <<clientVars, last_sms_metadata, started, device_tracker, ret, calls>>

\* future.result(timeout=60) returns the function's value or raises its
\* exception
future_result(t) ==
  /\ pc[t] = "result"
  /\ w[t].pc = "done"
  /\ device_tracker' = IF IsValue(w[t].res) THEN record_success(device_tracker)
                       ELSE record_failure(device_tracker, w[t].op \o ": " \o w[t].res.val.v)
  /\ ret' = [ret EXCEPT ![t] = w[t].res]
  /\ w' = [w EXCEPT ![t].recorded = @ + 1]
  /\ pc' = [pc EXCEPT ![t] = "exit"]
  /\ UNCHANGED <<clientVars, last_sms_metadata, started, client_lock, calls>>

\* future.result(timeout=60) raises concurrent.futures.TimeoutError: the
\* function has not finished
future_timeout(t) ==
  /\ pc[t] = "result"
  /\ w[t].pc # "done"
  /\ device_tracker' = record_failure(device_tracker, w[t].op \o ": Timeout")
  /\ ret' = [ret EXCEPT ![t] = Raise("TimeoutError")]
  /\ w' = [w EXCEPT ![t].recorded = @ + 1, ![t].timedOut = TRUE]
  /\ pc' = [pc EXCEPT ![t] = "exit"]
  /\ UNCHANGED <<clientVars, last_sms_metadata, started, client_lock, calls>>

\* an executor left with shutdown(wait=False)
ExecutorExitNoWait(t) == TRUE

\* leaving "with ThreadPoolExecutor(...) as executor" is
\* executor.shutdown(wait=True): it joins the worker thread
ExecutorExitReady(t) == w[t].pc = "done"

\* a release that is skipped when the call timed out
lock_release_unless_timeout(t) ==
  /\ pc[t] = "exit"
  /\ ExecutorExitReady(t)
  /\ client_lock' = IF w[t].timedOut THEN client_lock ELSE "free"
  /\ pc' = [pc EXCEPT ![t] = "idle"]
  /\ w' = [w EXCEPT ![t] = IF w[t].pc = "done" THEN W0 ELSE w[t]]
  /\ ret' = [ret EXCEPT ![t] = NoResult]
  /\ UNCHANGED <<clientVars, last_sms_metadata, started, device_tracker, calls>>

\* the executor and the lock are left: the caller gets ret[t], returned
\* or raised, and the worker thread is gone once it has finished
lock_release(t) ==
  /\ pc[t] = "exit"
  /\ ExecutorExitReady(t)
  /\ client_lock' = "free"
  /\ pc' = [pc EXCEPT ![t] = "idle"]
  /\ w' = [w EXCEPT ![t] = IF w[t].pc = "done" THEN W0 ELSE w[t]]
  /\ ret' = [ret EXCEPT ![t] = NoResult]
  /\ UNCHANGED <<clientVars, last_sms_metadata, started, device_tracker, calls>>

\* a collaborator calls client.authenticate() itself, whatever the flag
authenticate(t) ==
  /\ started = "running"
  /\ pc[t] = "idle"
  /\ ~Active(t)
  /\ calls < MaxCalls
  /\ calls' = calls + 1
  /\ w' = [w EXCEPT ![t] =
             StartAuthenticate([W0 EXCEPT !.op = "authenticate",
                                          !.authAtEntry = authenticated],
                               "explicit")]
  /\ UNCHANGED <<clientVars, last_sms_metadata, started, client_lock,
                 device_tracker, pc, ret>>

\* one step of thread t calling any of the operations in ops
ThreadStep(t, ops) ==
  \/ \E op \in ops : track_client_operation(t, op) /\ UNCHANGED extVars
  \/ lock_acquire(t) /\ UNCHANGED extVars
  \/ ensure_authenticated(t) /\ UNCHANGED extVars
  \/ \E r \in ProbeResponses : authenticate_probe(t, r) /\ UNCHANGED extVars
  \/ \E r \in LoginResponses : authenticate_login(t, r) /\ UNCHANGED extVars
  \/ \E r \in RciResponses(w[t]) : rci_request(t, r) /\ UNCHANGED extVars
  \/ future_result(t) /\ UNCHANGED extVars
  \/ future_timeout(t) /\ UNCHANGED extVars
  \/ lock_release(t) /\ UNCHANGED extVars

\* the client's public operations, one caller: every operation, every
\* response body
Next == ThreadStep("main", Ops) \/ (authenticate("main") /\ UNCHANGED extVars)

\* the callers together: handler and poller threads share the client
ConcOps == {"send_sms", "get_signal_quality"}

NextConc == \E t \in Threads : ThreadStep(t, ConcOps)

SpecConc == Init /\ [][NextConc]_vars

Spec == Init /\ [][Next]_vars

\* ------------------------------------------------- the SMS monitor
MaxCycles == 3

\* what the publisher's threads leave alone: the client and the facade
facadeVars == <<clientVars, last_sms_metadata, started, trackVars, w, configVars,
                handshake, counterVars, trackerVars>>

\* list bodies with timestamps
ListDated ==
  JList(<<JDict(<< <<"messages", JList(<<
     JDict(<< <<"id", JStr("nv-1")>>, <<"text", JStr("a")>>, <<"read", JBool(TRUE)>>,
              <<"timestamp", JStr("2024-01-02")>> >>),
     JDict(<< <<"id", JStr("nv-2")>>, <<"text", JStr("b")>>, <<"status", JStr("unread")>>,
              <<"timestamp", JStr("2024-01-03")>> >>),
     JDict(<< <<"id", JStr("nv-3")>>, <<"text", JStr("c")>>, <<"status", JStr("read")>> >>) >>)>> >>)>>)

\* a message with a timestamp and neither a read flag nor a status
ListUnmarked ==
  JList(<<JDict(<< <<"messages", JList(<<
     JDict(<< <<"id", JStr("nv-4")>>, <<"text", JStr("d")>>,
              <<"timestamp", JStr("2024-01-02")>> >>) >>)>> >>)>>)

MonitorBodies == {ListEmpty, ListSlots, ListDated, ListMalformed, ListUnmarked}

\* what track_client_operation("retrieveAllSms", ...) gives the loop
MonitorResults ==
  {Raise("TimeoutError")} \cup {retrieve_all_sms(Value(b)) : b \in MonitorBodies}

\* the order of the Date strings
DateOrder == <<"", "2024-01-02", "2024-01-03">>
DateRank(sms) ==
  CHOOSE i \in 1..Len(DateOrder) : DateOrder[i] = Get(sms, "Date", JStr("")).v

\* valid_sms.sort(key=Date, reverse=True): stable
RECURSIVE InsertByDate(_, _)
InsertByDate(x, sorted) ==
  IF sorted = <<>> THEN <<x>>
  ELSE IF DateRank(Head(sorted)) <= DateRank(x) THEN <<x>> \o sorted
  ELSE <<Head(sorted)>> \o InsertByDate(x, Tail(sorted))

RECURSIVE SortByDateDesc(_)
SortByDateDesc(all_sms) ==
  IF all_sms = <<>> THEN <<>>
  ELSE InsertByDate(Head(all_sms), SortByDateDesc(Tail(all_sms)))

HasDate(sms) == IsDict(sms) /\ Truthy(Get(sms, "Date", JNull))
IsReadRecord(sms) == Get(sms, "State", JNull) = JStr("Read")

\* a _sms_monitor_loop thread at its start. queue: the messages of the
\* cycle still to delete; published: publish_sms_received calls; overran:
\* the interval elapsed during the cycle; late: it did during the cycle
\* before; slept: the interval has elapsed since time.sleep began; polls:
\* the locations of the dated messages of each listing so far;
\* published_ids: the locations of the messages published
MonitorThread0 ==
  [pc |-> "loop", queue |-> <<>>, last_processed_sms_time |-> JStr(""),
   published |-> 0, overran |-> FALSE, late |-> FALSE, slept |-> FALSE,
   polls |-> <<>>, published_ids |-> {}, kind |-> "sms"]

\* a _publish_loop thread at its start
StatusThread0 == [MonitorThread0 EXCEPT !.kind = "status"]

InCycle(m) == m.pc \in {"list", "delete"}

\* paho's network thread: _on_connect, _on_disconnect
on_connect ==
  /\ main_pc # "stopped" /\ broker.closed = 0 /\ ~connected
  /\ connected' = TRUE
  /\ UNCHANGED <<facadeVars, disconnecting, config, main_pc, monitors, cycles, broker>>

on_disconnect ==
  /\ main_pc # "stopped" /\ broker.closed = 0 /\ connected
  /\ connected' = FALSE
  /\ UNCHANGED <<facadeVars, disconnecting, config, main_pc, monitors, cycles, broker>>

\* a main program that may start the monitor again
start_sms_monitoring_again ==
  /\ main_pc = "status_started"
  /\ Len(monitors) < 3
  /\ monitors' = IF config.sms_monitoring_enabled /\ connected
                 THEN Append(monitors, MonitorThread0) ELSE monitors
  /\ UNCHANGED <<facadeVars, connected, disconnecting, config, main_pc, cycles, broker>>

\* the main program's call of publish_status_periodic
publish_status_periodic ==
  /\ main_pc = "startup"
  /\ main_pc' = "status_started"
  /\ monitors' = IF connected THEN Append(monitors, StatusThread0) ELSE monitors
  /\ UNCHANGED <<facadeVars, connected, disconnecting, config, cycles, broker>>

\* the main program's one call of start_sms_monitoring, before app.run
start_sms_monitoring ==
  /\ main_pc = "status_started"
  /\ main_pc' = "serving"
  /\ monitors' = IF config.sms_monitoring_enabled /\ connected
                 THEN Append(monitors, MonitorThread0) ELSE monitors
  /\ UNCHANGED <<facadeVars, connected, disconnecting, config, cycles, broker>>

\* while self.connected and not self.disconnecting
monitor_loop(i) ==
  /\ monitors[i].pc = "loop"
  /\ IF connected /\ ~disconnecting
     THEN /\ cycles < MaxCycles
          /\ cycles' = cycles + 1
          /\ monitors' = [monitors EXCEPT ![i].pc = IF monitors[i].kind = "sms"
                                                    THEN "list" ELSE "status",
                                          ![i].late = monitors[i].overran,
                                          ![i].overran = FALSE]
     ELSE /\ monitors' = [monitors EXCEPT ![i].pc = "ended"]
          /\ UNCHANGED cycles
  /\ UNCHANGED <<facadeVars, connected, disconnecting, config, main_pc, broker>>

\* the tracked retrieve_all_sms, then the publishing of the newest message
monitor_list(i, res) ==
  /\ monitors[i].pc = "list"
  /\ LET m == monitors[i]
         valid_sms == IF IsExc(res) THEN <<>>
                      ELSE SortByDateDesc(SelectSeq(res.val.v, HasDate))
         queue == IF config.auto_delete_read_sms
                  THEN SelectSeq(valid_sms, IsReadRecord) ELSE <<>>
         fresh == /\ valid_sms # <<>>
                  /\ Get(valid_sms[1], "Date", JNull) # m.last_processed_sms_time
     IN monitors' = [monitors EXCEPT ![i] =
          [m EXCEPT !.pc = IF queue = <<>> THEN "sleep" ELSE "delete",
                    !.queue = queue,
                    !.published = IF fresh THEN @ + 1 ELSE @,
                    !.polls = IF IsExc(res) THEN @
                              ELSE Append(@, {Get(valid_sms[k], "original_index", JNull) :
                                                k \in 1..Len(valid_sms)}),
                    !.published_ids =
                       IF fresh THEN @ \cup {Get(valid_sms[1], "original_index", JNull)}
                       ELSE @,
                    !.last_processed_sms_time =
                       IF fresh THEN Get(valid_sms[1], "Date", JNull) ELSE @]]
  /\ UNCHANGED <<facadeVars, connected, disconnecting, config, main_pc, cycles, broker>>

\* the cycle of _publish_loop: the tracked get_signal_quality and
\* get_network_info and their publishing; an exception is dropped
status_poll(i) ==
  /\ monitors[i].pc = "status"
  /\ monitors' = [monitors EXCEPT ![i].pc = "sleep"]
  /\ UNCHANGED <<facadeVars, connected, disconnecting, config, main_pc, cycles, broker>>

\* one tracked delete_sms of the auto-delete loop; a timeout ends the cycle
monitor_delete(i, timeout) ==
  /\ monitors[i].pc = "delete"
  /\ LET rest == IF timeout THEN <<>> ELSE Tail(monitors[i].queue)
     IN monitors' = [monitors EXCEPT ![i].queue = rest,
                                     ![i].pc = IF rest = <<>> THEN "sleep" ELSE "delete"]
  /\ UNCHANGED <<facadeVars, connected, disconnecting, config, main_pc, cycles, broker>>

\* check_interval seconds pass
interval_elapses ==
  /\ \E i \in DOMAIN monitors :
       \/ monitors[i].pc = "sleep" /\ ~monitors[i].slept
       \/ InCycle(monitors[i]) /\ ~monitors[i].overran
  /\ monitors' = [i \in DOMAIN monitors |->
                   IF monitors[i].pc = "sleep" THEN [monitors[i] EXCEPT !.slept = TRUE]
                   ELSE IF InCycle(monitors[i]) THEN [monitors[i] EXCEPT !.overran = TRUE]
                   ELSE monitors[i]]
  /\ UNCHANGED <<facadeVars, connected, disconnecting, config, main_pc, cycles, broker>>

\* time.sleep(check_interval) returns
monitor_wake(i) ==
  /\ monitors[i].pc = "sleep" /\ monitors[i].slept
  /\ monitors' = [monitors EXCEPT ![i].pc = "loop", ![i].slept = FALSE]
  /\ UNCHANGED <<facadeVars, connected, disconnecting, config, main_pc, cycles, broker>>

\* a disconnect() that does not set the flag
disconnect_without_flag(p) ==
  LET called == [p EXCEPT !.broker.disconnect_calls = @ + 1]
  IN IF p.connected
     THEN [called EXCEPT !.broker.offline_published = @ + 1,
                         !.broker.closed = @ + 1,
                         !.connected = FALSE]
     ELSE called

\* MQTTPublisher.disconnect() on p, the publisher's connected and
\* disconnecting and the history of the broker
disconnect(p) ==
  LET called == [p EXCEPT !.broker.disconnect_calls = @ + 1]
  IN IF p.disconnecting THEN called
     ELSE IF p.connected
     THEN [called EXCEPT !.disconnecting = TRUE,
                         !.broker.offline_published = @ + 1,
                         !.broker.closed = @ + 1,
                         !.connected = FALSE]
     ELSE [called EXCEPT !.disconnecting = TRUE]

\* the main thread calls disconnect() and goes on at next_pc
CallDisconnect(next_pc) ==
  LET p == disconnect([connected |-> connected, disconnecting |-> disconnecting,
                       broker |-> broker])
  IN /\ connected' = p.connected
     /\ disconnecting' = p.disconnecting
     /\ broker' = p.broker
     /\ main_pc' = next_pc
     /\ UNCHANGED <<facadeVars, config, monitors, cycles>>

\* app.run returns or raises
app_run_returns ==
  /\ main_pc = "serving"
  /\ main_pc' = "finally"
  /\ UNCHANGED <<facadeVars, connected, disconnecting, config, monitors, cycles, broker>>

\* finally: mqtt_publisher.disconnect()
finally_disconnect ==
  /\ main_pc = "finally"
  /\ CallDisconnect("atexit")

\* the atexit handler
cleanup ==
  /\ main_pc = "atexit"
  /\ CallDisconnect("stopped")

\* SIGTERM or SIGINT on the main thread: disconnect(), then sys.exit(0)
\* unwinds what was interrupted: from inside the try block to its finally
\* clause, from anywhere else to the atexit handlers, from those to the end
signal_handler ==
  /\ main_pc # "stopped"
  /\ CallDisconnect(IF main_pc = "serving" THEN "finally"
                    ELSE IF main_pc = "atexit" THEN "stopped"
                    ELSE "atexit")

\* the client after init_keenetic_client succeeded, the publisher new
InitMonitor ==
  /\ authenticated = TRUE
  /\ session = 2
  /\ auth_cookies = 2
  /\ last_sms_metadata = JDict(<<>>)
  /\ sessionRejected = FALSE
  /\ started = "running"
  /\ client_lock = "free"
  /\ device_tracker = DeviceConnectivityTracker0
  /\ pc = [t \in Threads |-> "idle"]
  /\ w = [t \in Threads |-> W0]
  /\ ret = [t \in Threads |-> NoResult]
  /\ calls = 0
  /\ handshake = [NewHandshake(2) EXCEPT !.before = 1, !.cookies = NoSession,
                                         !.gets = 1, !.posts = 1, !.open = FALSE]
  /\ username = "admin"
  /\ password = "pw1"
  /\ variant = "B"
  /\ InitPublisher
  /\ config \in [sms_monitoring_enabled : BOOLEAN, auto_delete_read_sms : BOOLEAN]

NextMonitor ==
  \/ on_connect
  \/ on_disconnect
  \/ publish_status_periodic
  \/ start_sms_monitoring
  \/ \E i \in DOMAIN monitors : monitor_loop(i)
  \/ \E i \in DOMAIN monitors : \E res \in MonitorResults : monitor_list(i, res)
  \/ \E i \in DOMAIN monitors : \E timeout \in BOOLEAN : monitor_delete(i, timeout)
  \/ interval_elapses
  \/ \E i \in DOMAIN monitors : monitor_wake(i)
  \/ \E i \in DOMAIN monitors : status_poll(i)
  \/ app_run_returns
  \/ finally_disconnect
  \/ cleanup
  \/ signal_handler

SpecMonitor == InitMonitor /\ [][NextMonitor]_vars

\* --------------------------------------- the callers under fairness
\* the operation the callers contend with
LockOps == {"check_connection"}

NextLock == \E t \in Callers : ThreadStep(t, LockOps)

\* what thread t does once it is inside track_client_operation and has
\* the lock: the wrapped operation runs to its end, the future is
\* awaited, the lock is left
Progress(t) ==
  \/ ensure_authenticated(t) /\ UNCHANGED extVars
  \/ \E r \in ProbeResponses : authenticate_probe(t, r) /\ UNCHANGED extVars
  \/ \E r \in LoginResponses : authenticate_login(t, r) /\ UNCHANGED extVars
  \/ \E r \in RciResponses(w[t]) : rci_request(t, r) /\ UNCHANGED extVars
  \/ future_result(t) /\ UNCHANGED extVars
  \/ lock_release(t) /\ UNCHANGED extVars

\* every wrapped operation terminates, and a thread blocked on the lock
\* gets it if it is free again and again
Fairness ==
  \A t \in Callers :
    /\ WF_vars(Progress(t))
    /\ SF_vars(lock_acquire(t) /\ UNCHANGED extVars)

\* the client after init_keenetic_client succeeded
InitLock == InitMonitor /\ config = ConfigDefault

SpecLock == InitLock /\ [][NextLock]_vars /\ Fairness

\* --------------------------------------------- the tracker alone
MaxOutcomes == 5
MaxTime == 4

\* offline_timeout, in the units of now (the default is 900 seconds)
OfflineTimeout == 2

\* what the tracker's steps leave alone
trackerFrame == <<clientVars, last_sms_metadata, started, client_lock, pc, ret, calls,
                  w, configVars, handshake, monitorVars, counterVars>>

\* a status that never times out
get_status_without_timeout(trk, time) ==
  IF ~trk.initial_check_done THEN "offline"
  ELSE IF ~trk.last_success_set THEN "offline"
  ELSE IF trk.consecutive_failures >= 3 THEN "offline"
  ELSE "online"

\* DeviceConnectivityTracker.get_status() called at the given time
get_status(trk, time) ==
  IF ~trk.initial_check_done THEN "offline"
  ELSE IF ~trk.last_success_set THEN "offline"
  ELSE IF trk.consecutive_failures >= 3 THEN "offline"
  ELSE IF time - trk.last_success_time > OfflineTimeout THEN "offline"
  ELSE "online"

\* the error texts track_client_operation hands to record_failure, and
\* record_failure's default argument
ErrorMessages == {"", "GetSignal: Timeout", "GetSignal: router unreachable"}

\* track_client_operation: the operation returned
tracked_success ==
  /\ tracker_log.outcomes < MaxOutcomes
  /\ device_tracker' = record_success(device_tracker)
  /\ tracker_log' = [tracker_log EXCEPT !.outcomes = @ + 1, !.successes = @ + 1,
                                        !.failures_since = 0, !.success_at = now]
  /\ UNCHANGED <<trackerFrame, now>>

\* track_client_operation: the operation timed out or raised
tracked_failure(error_message) ==
  /\ tracker_log.outcomes < MaxOutcomes
  /\ device_tracker' = record_failure(device_tracker, error_message)
  /\ tracker_log' = [tracker_log EXCEPT !.outcomes = @ + 1, !.failures_since = @ + 1]
  /\ UNCHANGED <<trackerFrame, now>>

\* time passes
tick ==
  /\ now < MaxTime
  /\ now' = now + 1
  /\ UNCHANGED <<trackerFrame, device_tracker, tracker_log>>

NextTracker ==
  \/ tracked_success
  \/ \E error_message \in ErrorMessages : tracked_failure(error_message)
  \/ tick

SpecTracker == InitLock /\ [][NextTracker]_vars

\* ------------------------------------------------ the sent-SMS counter
MaxSends == 3

\* the most recipients of one request
MaxRecipients == 2

\* what the counter's steps leave alone
counterFrame == <<clientVars, last_sms_metadata, started, trackVars, w, configVars,
                  handshake, monitorVars, trackerVars>>

\* what track_client_operation("SendSMS", send_sms, ...) gives the loop
SendResults ==
  {send_sms(Value(JDict(<<>>))), send_sms(Raise("KeeneticConnectionError")),
   Raise("KeeneticAuthError"), Raise("TimeoutError")}

\* SmsCollection.post, _send_sms_via_keenetic: the recipients are split
\* and the loop over them begins
sms_request(t, n) ==
  /\ senders[t].pc = "idle"
  /\ sms_counter.requests < MaxSends
  /\ senders' = [senders EXCEPT ![t] = [pc |-> "send", todo |-> n, local |-> 0]]
  /\ sms_counter' = [sms_counter EXCEPT !.requests = @ + 1]
  /\ UNCHANGED counterFrame

\* the tracked send_sms of the next recipient returns, or raises and the
\* exception leaves the loop
send_result(t, res) ==
  /\ senders[t].pc = "send"
  /\ senders' = [senders EXCEPT ![t] =
                  IF IsValue(res) THEN [@ EXCEPT !.pc = "load"] ELSE Sender0]
  /\ sms_counter' = [sms_counter EXCEPT !.succeeded = @ + (IF IsValue(res) THEN 1 ELSE 0)]
  /\ UNCHANGED counterFrame

\* increment(): self.sent_count += 1 reads the attribute
increment_load(t) ==
  /\ senders[t].pc = "load"
  /\ senders' = [senders EXCEPT ![t].pc = "store", ![t].local = sms_counter.sent_count]
  /\ UNCHANGED <<counterFrame, sms_counter>>

\* self.sent_count += 1 writes the attribute
increment_store(t) ==
  /\ senders[t].pc = "store"
  /\ sms_counter' = [sms_counter EXCEPT !.sent_count = senders[t].local + 1,
                                        !.increments = @ + 1]
  /\ senders' = [senders EXCEPT ![t].pc = "save"]
  /\ UNCHANGED counterFrame

\* self._save() of increment(), then the next recipient or the end of
\* the loop
increment_save(t) ==
  /\ senders[t].pc = "save"
  /\ sms_counter' = [sms_counter EXCEPT !.file = sms_counter.sent_count]
  /\ senders' = [senders EXCEPT ![t] =
                  IF @.todo > 1 THEN [@ EXCEPT !.pc = "send", !.todo = @ - 1]
                  ELSE Sender0]
  /\ UNCHANGED counterFrame

\* _handle_reset_counter on the MQTT callback thread: reset() sets
\* self.sent_count = 0
reset ==
  /\ senders["mqtt"].pc = "idle"
  /\ sms_counter' = [sms_counter EXCEPT !.sent_count = 0, !.increments = 0]
  /\ senders' = [senders EXCEPT !["mqtt"].pc = "reset_save"]
  /\ UNCHANGED counterFrame

\* self._save() of reset()
reset_save ==
  /\ senders["mqtt"].pc = "reset_save"
  /\ sms_counter' = [sms_counter EXCEPT !.file = sms_counter.sent_count]
  /\ senders' = [senders EXCEPT !["mqtt"] = Sender0]
  /\ UNCHANGED counterFrame

NextCounter ==
  \/ \E t \in Callers : \E n \in 1..MaxRecipients : sms_request(t, n)
  \/ \E t \in Callers : \E res \in SendResults : send_result(t, res)
  \/ \E t \in Callers : increment_load(t)
  \/ \E t \in Callers : increment_store(t)
  \/ \E t \in Callers : increment_save(t)
  \/ reset
  \/ reset_save

SpecCounter == InitLock /\ [][NextCounter]_vars

\* ------------------------------------------- the signal reading alone
\* the raw signal values the router reports: -SignalFloor .. SignalCeil
SignalFloor == 115
SignalCeil == 2
SignalValues == (0 - SignalFloor)..SignalCeil

\* body of GET /rci/show/interface/<modem> reporting signal strength r
ShowSignal(r) == JDict(<< <<"signal-strength", JInt(r)>> >>)

\* the answers to the request of worker record wr
SignalResponses(wr) ==
  IF wr.op = "get_signal_quality"
  THEN {NetErr, Resp(401, FALSE, NotJson)}
       \cup {Resp(200, FALSE, ShowSignal(r)) : r \in SignalValues}
  ELSE RciResponses(wr)

\* the signal poller and the status endpoint reading the signal
NextSignal ==
  \/ track_client_operation("main", "get_signal_quality") /\ UNCHANGED extVars
  \/ lock_acquire("main") /\ UNCHANGED extVars
  \/ ensure_authenticated("main") /\ UNCHANGED extVars
  \/ \E r \in ProbeResponses : authenticate_probe("main", r) /\ UNCHANGED extVars
  \/ \E r \in LoginResponses : authenticate_login("main", r) /\ UNCHANGED extVars
  \/ \E r \in SignalResponses(w["main"]) : rci_request("main", r) /\ UNCHANGED extVars
  \/ future_result("main") /\ UNCHANGED extVars
  \/ future_timeout("main") /\ UNCHANGED extVars
  \/ lock_release("main") /\ UNCHANGED extVars

SpecSignal == Init /\ [][NextSignal]_vars

\* ---------------------------------------------- the handshake alone
\* the handshake's history after a step of worker t that received r
HandshakeStep(t, r) ==
  handshake' =
    IF w[t].pc = "probe"
    THEN [handshake EXCEPT !.gets = @ + 1, !.open = (w'[t].pc = "login"),
                           !.probe = [err |-> r.err, status |-> r.status,
                                      challenge |-> r.challenge, realm |-> r.realm]]
    ELSE IF w[t].pc = "login"
    THEN [handshake EXCEPT !.posts = @ + 1, !.open = FALSE,
                           !.login_data = LoginData(w[t].challenge, w[t].realm),
                           !.post_session = w[t].temp]
    ELSE IF w'[t].pc = "probe" THEN NewHandshake(w'[t].temp)
    ELSE handshake

\* GET /auth answers with every combination of status and headers
ProbeChallenges ==
  {NetErr} \cup
  {Response(st, c, rl, NotJson) :
     st \in {200, 401, 500}, c \in Challenges \cup {""}, rl \in Realms \cup {""}}

\* either client, any credentials
InitAuth ==
  /\ InitClient
  /\ InitPublisher
  /\ config = ConfigDefault
  /\ username \in Usernames
  /\ password \in Passwords
  /\ variant \in {"A", "B"}

\* init_keenetic_client, then authenticate() called by a collaborator
NextAuth ==
  \/ /\ authenticate("main") /\ HandshakeStep("main", NetErr)
     /\ UNCHANGED <<configVars, monitorVars, counterVars, trackerVars>>
  \/ /\ ensure_authenticated("main") /\ HandshakeStep("main", NetErr)
     /\ UNCHANGED <<configVars, monitorVars, counterVars, trackerVars>>
  \/ \E r \in ProbeChallenges :
       /\ authenticate_probe("main", r) /\ HandshakeStep("main", r)
       /\ UNCHANGED <<configVars, monitorVars, counterVars, trackerVars>>
  \/ \E r \in LoginResponses :
       /\ authenticate_login("main", r) /\ HandshakeStep("main", r)
       /\ UNCHANGED <<configVars, monitorVars, counterVars, trackerVars>>
  \/ \E r \in RciResponses(w["main"]) :
       /\ rci_request("main", r) /\ HandshakeStep("main", r)
       /\ UNCHANGED <<configVars, monitorVars, counterVars, trackerVars>>

SpecAuth == InitAuth /\ [][NextAuth]_vars

\* ============================================================== claims
TransportErrors == {"KeeneticAuthError", "KeeneticConnectionError"}

\* C1: in one call of send_command or _rci_request at most two requests
\* are sent and authenticate() is called at most once on a 401: a 401
\* triggers exactly one re-authentication, the second request is sent only
\* after that re-authentication succeeded and then exactly once, and a 401
\* on the retry ends the call.
C1_OneReauthOneRetry ==
  \A t \in Threads :
    /\ w[t].req <= 2
    /\ w[t].reauth <= 1
    /\ (w[t].n401 = 0 => w[t].reauth = 0)
    /\ (w[t].n401 >= 1 => w[t].reauth = 1)
    /\ (w[t].req = 2 => w[t].reauthOk)
    /\ (w[t].reauthOk /\ w[t].tr # NoResult => w[t].req = 2)
    /\ (w[t].n401 = 2 => w[t].tr # NoResult)

C1_Witness == \E t \in Threads : w[t].n401 = 2 /\ w[t].req = 2 /\ w[t].reauth = 1

\* C2: when the retry after a successful re-authentication is answered
\* 401 as well, the call ends with KeeneticAuthError.
C2_SecondUnauthorizedIsAuthError ==
  \A t \in Threads : w[t].n401 = 2 => w[t].tr = Raise("KeeneticAuthError")

\* C3: no RCI request is sent while the authenticated flag is false, and
\* a call whose _ensure_authenticated fails ends with the error of that
\* authentication without having sent a request.
C3_NoRequestUnauthenticated ==
  \A t \in Threads :
    /\ ~w[t].sentUnauth
    /\ (w[t].ensureFailed =>
          /\ w[t].req = 0
          /\ IsExc(w[t].tr)
          /\ w[t].tr.val.v \in TransportErrors)

C3_Witness ==
  \E t \in Threads :
    w[t].ensureFailed /\ w[t].tr = Raise("KeeneticAuthError") /\ w[t].req = 0

\* C4: once a request on the current session was answered 401, the
\* authenticated flag is false until a successful authenticate() has
\* replaced the session.
C4_RejectedSessionInvalidated == sessionRejected => ~authenticated

\* C5: at most one client call (authentication or request-with-retry) is
\* in flight at any time, and while the callers run it is the lock
\* holder's, also after the 60 s timeout has fired for it.
C5_OneCallInFlight ==
  /\ Cardinality({t \in Threads : Active(t)}) <= 1
  /\ \A t \in Threads : Active(t) /\ started = "running" => client_lock = t

C5_Witness ==
  \E t, u \in Threads :
    /\ t # u
    /\ w[t].timedOut /\ Active(t)
    /\ pc[u] = "lock"

\* C6: once the timeout of a tracked call has expired, control returns
\* to the caller without waiting for the operation: the caller can leave
\* track_client_operation whether or not the operation has finished.
C6_TimeoutReturnsControl ==
  \A t \in Threads : pc[t] = "exit" /\ w[t].timedOut => ENABLED lock_release(t)

\* C7: track_client_operation hands its caller exactly the value or the
\* exception of the wrapped function and records one success,
\* respectively one failure; on timeout it records one failure, raises
\* TimeoutError and leaves the authenticated flag alone; each call records
\* exactly one outcome.
C7_TrackStep(t) ==
  /\ ret'[t] = IF w[t].pc = "done" THEN w[t].res ELSE Raise("TimeoutError")
  /\ device_tracker'.total_operations = device_tracker.total_operations + 1
  /\ device_tracker'.successful_operations =
       device_tracker.successful_operations
       + (IF w[t].pc = "done" /\ IsValue(w[t].res) THEN 1 ELSE 0)
  /\ device_tracker'.consecutive_failures =
       IF w[t].pc = "done" /\ IsValue(w[t].res) THEN 0
       ELSE device_tracker.consecutive_failures + 1
  /\ authenticated' = authenticated
  /\ Raise("TimeoutError").val.v \notin TransportErrors

C7_TrackingKeepsOutcome ==
  /\ [](\A t \in Threads : pc[t] = "exit" => w[t].recorded = 1)
  /\ [](\A t \in Threads : pc[t] \in {"lock", "result"} => w[t].recorded = 0)
  /\ [][\A t \in Threads : pc[t] = "result" /\ pc'[t] = "exit" => C7_TrackStep(t)]_vars

C7_Witness ==
  \E t \in Threads :
    /\ pc[t] = "exit" /\ w[t].timedOut
    /\ ret[t] = Raise("TimeoutError")
    /\ w[t].pc = "done" /\ IsValue(w[t].res)
    /\ device_tracker.consecutive_failures >= 1

\* C8: send_sms, retrieve_all_sms, delete_sms and delete_all_sms end with
\* an error for the caller whenever their router call failed
\* (unreachable, non-200, authentication failed).
C8_ExplicitOpsSurfaceFailures ==
  \A t \in Threads :
    w[t].pc = "done" /\ w[t].op \in SmsOps /\ IsExc(w[t].tr) => IsExc(w[t].res)

\* C9: the status reads never raise: on an authentication or transport
\* failure each returns its default, and so do the reads of the interface
\* record when the response is no mapping.
ReadDefault(op) ==
  CASE op = "get_signal_quality" -> SignalQualityDefault
    [] op = "get_network_info" -> NetworkInfoDefault
    [] op = "get_modem_info" -> ModemInfoDefault
    [] op = "get_sim_imsi" -> JStr("N/A")
    [] op = "get_sms_capacity" -> get_sms_capacity(Raise("KeeneticConnectionError")).val
    [] OTHER -> JBool(FALSE)

ShapeKeys(op) ==
  CASE op = "get_signal_quality" -> {"SignalStrength", "SignalPercent", "BitErrorRate"}
    [] op = "get_network_info" -> {"NetworkName", "State", "NetworkCode", "CID", "LAC"}
    [] OTHER -> {"Manufacturer", "Model", "IMEI", "Firmware"}

C10_FixedShape ==
  \A t \in Threads :
    w[t].pc = "done"
      /\ w[t].op \in {"get_signal_quality", "get_network_info", "get_modem_info"}
    => IsValue(w[t].res) /\ Keys(w[t].res.val) = ShapeKeys(w[t].op)

\* the SMS operations of the client that wrap their failures
WrappingOps == {"send_sms", "delete_sms", "delete_all_sms"}

\* C11: send_sms, delete_sms and delete_all_sms fail only with
\* KeeneticSMSError: a failed transport call of theirs (transport error,
\* initial authentication failed, re-authentication failed) never reaches
\* the caller as a bare KeeneticAuthError or KeeneticConnectionError.
C11_SmsOpsFailOnlyWithSmsError ==
  \A t \in Threads :
    w[t].pc = "done" /\ w[t].op \in WrappingOps /\ IsExc(w[t].tr) /\ IsExc(w[t].res)
    => w[t].res = Raise("KeeneticSMSError")

\* responses that are a transport failure other than session expiry
FailedResponses == {NetErr, Resp(500, FALSE, NotJson)}

\* what a request answered by a failure other than 401 leaves behind
C12_FailedStep(t) ==
  /\ w'[t].tr = Raise("KeeneticConnectionError")
  /\ w'[t].req = w[t].req + 1
  /\ w'[t].reauth = w[t].reauth
  /\ w'[t].cmds = w[t].cmds
  /\ w'[t].pc \notin {"ensure", "probe", "login", "request"}
  /\ authenticated' = authenticated
  /\ session' = session
  /\ auth_cookies' = auth_cookies

\* C12: a request answered with a status other than 200 and 401, or
\* failing at network level, ends its call with KeeneticConnectionError at
\* once: no re-authentication, no further request, and the authenticated
\* flag and the session stay as they were.
C12_OnlyExpiryIsRetried ==
  [][\A t \in Threads : \A r \in FailedResponses :
       rci_request(t, r) => C12_FailedStep(t)]_vars

C12_Witness ==
  \E t \in Threads :
    /\ w[t].pc = "done" /\ w[t].op = "send_sms"
    /\ w[t].tr = Raise("KeeneticConnectionError")
    /\ w[t].req = 1 /\ w[t].n401 = 0 /\ w[t].reauth = 0
    /\ authenticated /\ ~sessionRejected

\* the identifiers of the listed messages, in list order: the id of a
\* message, otherwise its index, as the string the delete command carries
RECURSIVE ResolvableIds(_)
ResolvableIds(msgs) ==
  IF msgs = <<>> THEN <<>>
  ELSE LET m == Head(msgs)
           ident == IF ~IsDict(m) THEN JNull
                    ELSE IF Truthy(Get(m, "id", JNull)) THEN Get(m, "id", JNull)
                    ELSE Get(m, "index", JNull)
       IN (IF ident = JNull THEN <<>> ELSE <<JStr(FormatValue(ident))>>)
          \o ResolvableIds(Tail(msgs))

\* C13: delete_all_sms returns 0 and sends no delete command when the
\* list is empty or no listed message has an identifier: a delete command
\* is sent only with a non-empty id list.
C13_EmptyListNoDelete ==
  \A t \in Threads :
    w[t].op = "delete_all_sms" =>
      /\ (w[t].phase = "delete" => Len(w[t].carry) > 0)
      /\ (w[t].pc = "done" /\ w[t].phase = "first"
            /\ ResolvableIds(get_all_sms(w[t].tr).v) = <<>>
          => /\ w[t].res = Value(JInt(0))
             /\ w[t].cmds <= 1
             /\ w[t].sent \in {JNull, ListCommand})

C13_Witness ==
  \E t \in Threads :
    /\ w[t].pc = "done" /\ w[t].op = "delete_all_sms" /\ w[t].phase = "first"
    /\ Len(get_all_sms(w[t].tr).v) > 0
    /\ w[t].res = Value(JInt(0))
    /\ w[t].sent = ListCommand

\* the state of a delete_all_sms call that has listed identifiers
C14_Batch(t) ==
  /\ (w[t].top => w[t].carry = ResolvableIds(get_all_sms(w[t].tr).v))
  /\ w[t].cmds <= 2
  /\ (~w[t].top /\ w[t].req >= 1 =>
        /\ w[t].sent = DeleteCommand(w[t].carry)
        /\ Len(w[t].sent.v) = 1)
  /\ (w[t].pc = "done" =>
        /\ w[t].cmds = 2
        /\ (IsValue(w[t].tr) => w[t].res = Value(JInt(Len(w[t].carry))))
        /\ (IsExc(w[t].tr) => IsExc(w[t].res)))

C15_OneSendPerCall ==
  \A t \in Threads :
    w[t].op = "send_sms" =>
      /\ w[t].cmds <= 1
      /\ w[t].accepted <= 1
      /\ (w[t].req >= 1 =>
            /\ IsList(w[t].sent) /\ Len(w[t].sent.v) = 1
            /\ Get(Get(Get(w[t].sent.v[1], "sms", JNull), "send", JNull), "to", JNull)
                 = JStr(w[t].arg))
      /\ (w[t].pc = "done" /\ IsValue(w[t].res) =>
            w[t].res = Value(JBool(TRUE)) /\ w[t].accepted = 1)

C15_Witness ==
  \E t \in Threads :
    /\ w[t].pc = "done" /\ w[t].op = "send_sms" /\ w[t].arg = "+2000"
    /\ w[t].req = 2 /\ w[t].n401 = 1 /\ w[t].accepted = 1
    /\ w[t].res = Value(JBool(TRUE))

\* C16: authenticate() that returns True leaves the client authenticated
\* on a session the router has accepted, whether the client was
\* authenticated before or not; a second call leaves the same.
C16_AuthenticateIdempotent ==
  \A t \in Threads :
    w[t].pc = "done" /\ w[t].op = "authenticate" /\ w[t].res = Value(JBool(TRUE))
    => /\ authenticated
       /\ ~sessionRejected
       /\ session # NoSession

C16_Witness ==
  \E t \in Threads :
    /\ w[t].pc = "done" /\ w[t].op = "authenticate"
    /\ w[t].authAtEntry
    /\ w[t].res = Value(JBool(TRUE))
    /\ calls = 2
    /\ authenticated /\ session = auth_cookies

\* the identifiers of the records retrieve_all_sms returned
RecordIds(res) == [i \in 1..Len(res.val.v) |-> Get(res.val.v[i], "original_index", JNull)]

\* the texts of the records retrieve_all_sms returned
RecordTexts(res) == [i \in 1..Len(res.val.v) |-> Get(res.val.v[i], "Text", JNull)]

\* the documented forms of X in {"sms": {"list": X}}
NestedListBodies == {ListSeq, ListSlotMap, ListMessagesSeq, ListSlots}

\* C17: for {"sms": {"list": X}} listing returns the two messages for
\* every documented form of X: a sequence, a slot-keyed mapping (the key
\* injected as id), a mapping with a messages key holding either.
C17_NestedFormsListed ==
  \A t \in Threads :
    w[t].pc = "done" /\ w[t].op = "retrieve_all_sms"
      /\ IsValue(w[t].tr) /\ w[t].tr.val \in NestedListBodies
    => /\ IsValue(w[t].res)
       /\ RecordIds(w[t].res) = <<JStr("nv-1"), JStr("nv-2")>>

\* C18: when the first element of the list response is a flat sequence
\* of message objects, listing yields one record per object, in order,
\* with the objects' field values.
C18_FlatSequenceListed ==
  \A t \in Threads :
    w[t].pc = "done" /\ w[t].op = "retrieve_all_sms" /\ w[t].tr = Value(ListFlat)
    => /\ IsValue(w[t].res)
       /\ RecordIds(w[t].res) = <<JStr("nv-1"), JStr("nv-2")>>
       /\ RecordTexts(w[t].res) = <<JStr("hi"), JStr("yo")>>

\* the shapes that present the two messages
SameMessagesBodies == {ListSeq, ListSlotMap, ListSlots, ListBare}

\* C19: the same messages presented as a sequence under sms.list, as a
\* slot-keyed mapping under sms.list or under sms.list.messages, or as a
\* sequence under a bare messages key yield the same records.
C19_ShapeIndependent ==
  \A t \in Threads :
    w[t].pc = "done" /\ w[t].op = "retrieve_all_sms"
      /\ IsValue(w[t].tr) /\ w[t].tr.val \in SameMessagesBodies
    => w[t].res = retrieve_all_sms(Value(ListSeq))

\* C20: a listed message with no id and no index is dropped: the records
\* returned are as many as the listed messages that have an identifier,
\* and each record has one.
C20_UnidentifiedDropped ==
  \A t \in Threads :
    w[t].pc = "done" /\ w[t].op = "retrieve_all_sms" /\ IsValue(w[t].res)
    => /\ Len(w[t].res.val.v) = Len(ResolvableIds(get_all_sms(w[t].tr).v))
       /\ \A i \in 1..Len(w[t].res.val.v) : RecordIds(w[t].res)[i] # JNull

\* C21: listing never raises because of what a successfully received
\* response holds: an unknown shape gives an empty list, an entry that is
\* no mapping is skipped, a message with a malformed field gets a default.
C21_NormalizationNeverRaises ==
  \A t \in Threads :
    w[t].pc = "done" /\ w[t].op = "retrieve_all_sms" /\ IsValue(w[t].tr)
    => IsValue(w[t].res)

\* the state a message is to be given: the boolean read field decides,
\* otherwise the status string, "read" and "unread" in any letter case
ExpectedState(m) ==
  LET is_read == Get(m, "read", JNull)
      status == Get(m, "status", JStr("read"))
  IN IF is_read.t = "bool" THEN JStr(IF is_read.v THEN "Read" ELSE "UnRead")
     ELSE IF LowerStr(status.v) = "read" THEN JStr("Read")
     ELSE IF LowerStr(status.v) = "unread" THEN JStr("UnRead")
     ELSE JStr(Capitalize(status.v))

\* C22: the State of each record: a boolean read field decides it
\* whatever the status says; otherwise a status equal to "read" or
\* "unread" in any letter case gives Read or UnRead, and any other status
\* string is passed through capitalised.
C22_StateMapping ==
  \A t \in Threads :
    w[t].pc = "done" /\ w[t].op = "retrieve_all_sms" /\ IsValue(w[t].res)
    => LET msgs == SelectSeq(get_all_sms(w[t].tr).v, IsDict) IN
       /\ Len(w[t].res.val.v) = Len(msgs)
       /\ \A i \in 1..Len(msgs) :
            Get(w[t].res.val.v[i], "State", JNull) = ExpectedState(msgs[i])

\* what a request answered 200 with an undecodable body leaves behind
C23_EmptySuccessStep(t) ==
  /\ w'[t].tr = Value(JDict(<<>>))
  /\ w'[t].req = w[t].req + 1
  /\ w'[t].reauth = w[t].reauth
  /\ w'[t].pc = "done"
  /\ authenticated' = authenticated
  /\ session' = session
  /\ (w[t].op = "send_sms" => w'[t].res = Value(JBool(TRUE)))
  /\ (w[t].op = "delete_sms" =>
        client_delete_sms(w'[t].tr) = Value(JBool(TRUE)) /\ IsValue(w'[t].res))
  /\ (w[t].op \in ListOps /\ w[t].phase = "first" =>
        get_all_sms(w'[t].tr) = JList(<<>>))
  /\ (w[t].op = "retrieve_all_sms" => w'[t].res = Value(JList(<<>>)))

\* C23: a 200 response whose body is no JSON is an empty success:
\* send_command and _rci_request return {} without raising, send_sms and
\* delete_sms succeed, get_all_sms returns [], and nothing is retried or
\* re-authenticated.
C23_UndecodableBodyIsEmptySuccess ==
  [][\A t \in Threads :
       rci_request(t, Resp(200, FALSE, NotJson)) => C23_EmptySuccessStep(t)]_vars

C23_Witness ==
  \E t \in Threads :
    /\ w[t].pc = "done" /\ w[t].op = "send_sms"
    /\ w[t].tr = Value(JDict(<<>>))
    /\ w[t].res = Value(JBool(TRUE))
    /\ w[t].req = 1 /\ w[t].reauth = 0

\* the threads inside authenticate()
Authenticating == {t \in Threads : w[t].pc \in {"probe", "login"}}

\* C27: the authenticated flag becomes true only when an authenticate()
\* ends having installed its session, becomes false only when a request
\* is answered 401 or an authenticate() ends in failure, authenticate()
\* runs only while the flag is false, and no two authenticate() calls of
\* the client overlap.
C27_SessionLifecycle ==
  /\ [](Cardinality(Authenticating) <= 1)
  /\ [](Authenticating # {} => ~authenticated)
  /\ [][~authenticated /\ authenticated' =>
          \E t \in Authenticating :
            /\ w'[t].pc \notin {"probe", "login"}
            /\ session' = w[t].temp]_vars
  /\ [][authenticated /\ ~authenticated' =>
          \E t \in Threads :
            \/ w[t].pc = "request" /\ w'[t].n401 = w[t].n401 + 1
            \/ /\ t \in Authenticating
               /\ w'[t].pc \notin {"probe", "login"}
               /\ session' = session]_vars

C27_Witness ==
  \E t \in Threads :
    /\ w[t].pc = "request" /\ w[t].reauthOk /\ w[t].n401 = 1
    /\ authenticated /\ ~sessionRejected

\* C30: a tracked operation whose router call failed is recorded by the
\* connectivity tracker as a failure, whatever the operation.
C30_FailuresAreRecorded ==
  \A t \in Threads :
    pc[t] = "exit" /\ ~w[t].timedOut /\ IsExc(w[t].tr)
    => device_tracker.consecutive_failures >= 1

\* C26: the password of the login POST is SHA256(nonce || SHA256(password))
\* under Variant A and SHA256(nonce || MD5(username ":" realm ":" password))
\* under Variant B, nonce and realm being the header values of the probe
\* response of the same authenticate() call, and the variant never changes.
C26_DigestOfProbeChallenge ==
  /\ [](handshake.posts >= 1 =>
          handshake.login_data =
            << <<"login", username>>,
               <<"password",
                 IF variant = "A"
                 THEN Sha256(handshake.probe.challenge \o Sha256(password))
                 ELSE Sha256(handshake.probe.challenge \o
                             Md5(username \o ":" \o handshake.probe.realm \o ":" \o
                                 password))>> >>)
  /\ [][variant' = variant]_vars

C26_Witness ==
  /\ handshake.posts = 1
  /\ variant = "A" /\ password = "pw2"
  /\ handshake.probe.challenge = "c2" /\ handshake.probe.realm = "r1"
  /\ handshake.login_data[2][2] = "sha256(c2sha256(pw2))"

\* the challenge headers the deployed client requires are in response r
C28_HeadersPresent(r) == r.challenge # "" /\ (variant = "B" => r.realm # "")

\* an authenticate() called by a collaborator has returned or raised
C28_Returned == w["main"].op = "authenticate" /\ w["main"].pc = "done"

\* C28: one authenticate() makes exactly one probe GET and at most one
\* login POST; the POST is sent only after a probe answered 401 with the
\* challenge headers; a probe answered 200 ends in success without a
\* POST; any other status, or a 401 without the headers, ends in failure
\* without a POST.
C28_OneGetAtMostOnePost ==
  /\ handshake.gets <= 1 /\ handshake.posts <= 1
  /\ (handshake.posts = 1 =>
        /\ handshake.gets = 1 /\ ~handshake.probe.err
        /\ handshake.probe.status = 401 /\ C28_HeadersPresent(handshake.probe))
  /\ (~handshake.open =>
        /\ handshake.gets = 1
        /\ (handshake.posts = 1 <=>
              /\ ~handshake.probe.err /\ handshake.probe.status = 401
              /\ C28_HeadersPresent(handshake.probe)))
  /\ (C28_Returned /\ ~handshake.probe.err =>
        /\ ~handshake.open
        /\ (handshake.probe.status = 200 =>
              handshake.posts = 0 /\ w["main"].res = Value(JBool(TRUE)))
        /\ (\/ handshake.probe.status \notin {200, 401}
            \/ handshake.probe.status = 401 /\ ~C28_HeadersPresent(handshake.probe)
            => handshake.posts = 0 /\ w["main"].res = Value(JBool(FALSE))))

C28_Witness ==
  /\ C28_Returned
  /\ variant = "B"
  /\ handshake.probe.status = 401
  /\ handshake.probe.challenge = "c1" /\ handshake.probe.realm = ""
  /\ handshake.gets = 1 /\ handshake.posts = 0
  /\ w["main"].res = Value(JBool(FALSE))

\* C29: the login POST goes out on the session that made the probe, once
\* per challenge; the client's session is replaced only on success: it is
\* the probe-and-login session after a successful authenticate() and the
\* previous session, with its cookies, during the handshake and after an
\* authenticate() that returned false or raised.
C29_SessionReplacedOnlyOnSuccess ==
  /\ handshake.posts <= 1
  /\ handshake.temp # handshake.before
  /\ (handshake.posts = 1 => handshake.post_session = handshake.temp)
  /\ (handshake.open =>
        session = handshake.before /\ auth_cookies = handshake.cookies)
  /\ (started = "failed" =>
        session = handshake.before /\ auth_cookies = handshake.cookies)
  /\ (C28_Returned =>
        IF w["main"].res = Value(JBool(TRUE))
        THEN session = handshake.temp /\ authenticated
        ELSE session = handshake.before /\ auth_cookies = handshake.cookies)

C29_Witness ==
  /\ C28_Returned
  /\ w["main"].res = Value(JBool(FALSE))
  /\ handshake.posts = 1 /\ handshake.post_session = handshake.temp
  /\ session = handshake.before /\ session # handshake.temp
  /\ w["main"].authAtEntry /\ authenticated

\* the percentage the mapping gives for raw value r
C24_Expected(r) ==
  IF r >= -51 THEN 100
  ELSE IF r <= -113 THEN 0
  ELSE ((r + 113) * 100) \div 62

\* the SignalPercent get_signal_quality returns for raw value r
C24_Percent(r) ==
  Get(get_signal_quality(Value(ShowSignal(r))).val, "SignalPercent", JNull).v

\* C24: for every integer raw signal value r the router reports,
\* SignalPercent is 100 for r >= -51, 0 for r <= -113 and
\* (r + 113) * 100 / 62 truncated in between; it lies in 0..100 and is
\* non-decreasing in r.
C24_SignalMapping ==
  \A r \in SignalValues :
    w["main"].pc = "done" /\ w["main"].op = "get_signal_quality"
    /\ w["main"].tr = Value(ShowSignal(r))
    => LET percent == Get(w["main"].res.val, "SignalPercent", JNull).v IN
       /\ percent = C24_Expected(r)
       /\ percent \in 0..100
       /\ \A q \in SignalValues : q <= r => C24_Percent(q) <= percent

\* C25: the SMS monitoring loop never runs concurrently with itself: at
\* most one poll cycle (list, publish newest, auto-deletes) executes at any
\* time; a cycle begins only at the loop test with no cycle running, every
\* cycle is followed by a full interval of sleep, so a cycle that outlasts
\* the interval delays the next one.
C25_NoOverlappingCycles ==
  /\ [](Cardinality({i \in DOMAIN monitors : InCycle(monitors[i])}) <= 1)
  /\ [][\A i \in DOMAIN monitors :
         /\ (~InCycle(monitors[i]) /\ InCycle(monitors'[i]) =>
               /\ monitors[i].pc = "loop"
               /\ \A j \in DOMAIN monitors : ~InCycle(monitors[j]))
         /\ (InCycle(monitors[i]) /\ ~InCycle(monitors'[i]) =>
               monitors'[i].pc = "sleep" /\ ~monitors'[i].slept)
         /\ (monitors[i].pc = "sleep" /\ monitors'[i].pc # "sleep" =>
               monitors[i].slept /\ monitors'[i].pc = "loop")
         /\ (monitors[i].pc # "loop" /\ monitors'[i].pc = "loop" =>
               monitors[i].pc = "sleep")]_vars

C25_Witness ==
  \E i \in DOMAIN monitors :
    /\ monitors[i].pc = "delete" /\ monitors[i].late
    /\ cycles = 2

\* C31: whenever authenticate() has returned false or raised, the
\* authenticated flag is false afterwards, also when it was called while
\* the client was already authenticated.
C31_FailedAuthenticateClearsFlag ==
  \A t \in Threads :
    w[t].op = "authenticate" /\ w[t].pc = "done" /\ w[t].res # Value(JBool(TRUE))
    => ~authenticated

C33_NoLostUpdate == sms_counter.sent_count = sms_counter.increments

\* C34: the status is offline until the first recorded success, offline
\* from three consecutive failures on, offline when more than
\* offline_timeout has passed since the last success, and online
\* otherwise; a recorded success makes it online at once.
C34_Expected ==
  IF tracker_log.successes = 0 THEN "offline"
  ELSE IF tracker_log.failures_since >= 3 THEN "offline"
  ELSE IF now - tracker_log.success_at > OfflineTimeout THEN "offline"
  ELSE "online"

C34_StatusRule ==
  /\ [](get_status(device_tracker, now) = C34_Expected)
  /\ [][tracked_success => get_status(device_tracker', now') = "online"]_vars

C34_Witness ==
  /\ tracker_log.successes = 1
  /\ tracker_log.outcomes >= 4
  /\ tracker_log.failures_since = 0
  /\ get_status(device_tracker, now) = "online"

\* C35: after any sequence of record_success and record_failure the
\* totals count the outcomes and the successes, consecutive_failures
\* counts the failures since the last success, and last_error is unset
\* exactly when consecutive_failures is 0.
C35_Bookkeeping ==
  /\ device_tracker.total_operations = tracker_log.outcomes
  /\ device_tracker.successful_operations = tracker_log.successes
  /\ device_tracker.successful_operations <= device_tracker.total_operations
  /\ device_tracker.consecutive_failures = tracker_log.failures_since
  /\ device_tracker.last_error = "" <=> device_tracker.consecutive_failures = 0

C35_Witness ==
  /\ tracker_log.successes >= 2
  /\ tracker_log.failures_since >= 1
  /\ tracker_log.outcomes > tracker_log.successes + tracker_log.failures_since

\* C36: the monitor deletes a message only when auto_delete_read_sms is
\* enabled and the router reported the message as read, by read == true
\* or by status "read".
C36_ReportedRead(sms) ==
  \E b \in MonitorBodies :
    LET raw == get_all_sms(Value(b)).v
    IN \E k \in 1..Len(raw) :
         /\ IsDict(raw[k])
         /\ SmsRecord(raw[k]) = sms
         /\ \/ Get(raw[k], "read", JNull) = JBool(TRUE)
            \/ Get(raw[k], "status", JNull) = JStr("read")

C36_DeletesOnlyReportedRead ==
  \A i \in DOMAIN monitors :
    monitors[i].pc = "delete"
    => /\ config.auto_delete_read_sms
       /\ C36_ReportedRead(Head(monitors[i].queue))

\* C37: a message that arrived while the monitor runs, and is still on
\* the router at the poll after the one that first listed it, has been
\* published.
C37_ArrivalsArePublished ==
  \A i \in DOMAIN monitors :
    LET polls == monitors[i].polls
    IN \A k \in 2..(Len(polls) - 1) :
         \A id \in (polls[k] \ polls[k - 1]) \cap polls[k + 1] :
           id \in monitors[i].published_ids

\* C38: once started, a polling loop ends only after disconnect() was
\* called: while the main program serves with the broker connected, no
\* loop has ended.
C38_LoopsRunUntilDisconnect ==
  \A i \in DOMAIN monitors :
    monitors[i].pc = "ended" => disconnecting \/ ~connected \/ main_pc # "serving"

\* C39: however often disconnect() is called, the offline message is
\* published and the broker connection closed at most once; from the
\* first call on disconnecting is true, and a loop that reaches its test
\* then ends.
C39_DisconnectIdempotent ==
  /\ [](broker.offline_published <= 1 /\ broker.closed <= 1)
  /\ [](broker.disconnect_calls > 0 => disconnecting)
  /\ [][\A i \in DOMAIN monitors :
         disconnecting /\ monitors[i].pc = "loop" /\ monitors'[i] # monitors[i]
         => monitors'[i].pc = "ended"]_vars

C39_Witness ==
  /\ broker.disconnect_calls = 3
  /\ broker.offline_published = 1
  /\ \E i, j \in DOMAIN monitors :
       /\ monitors[i].kind = "sms" /\ monitors[i].pc = "ended"
       /\ monitors[j].kind = "status" /\ monitors[j].pc = "ended"

====
